---- MODULE Spec2Model ----
(***************************************************************************)
(* medexam-parser: the record integration stage (step 5b) together with    *)
(* the stage that produces its consecutive-block input (step 4b).          *)
(*                                                                         *)
(* Python strings are modelled as sequences of one-character strings, so   *)
(* that formatting (f-strings), parsing (re.match, float) and comparing    *)
(* (str <, sort keys) are computed and not assumed.  A JSON object is a    *)
(* TLA+ record; a key that is missing from the object is missing from the  *)
(* record's DOMAIN.  JSON null in a number field is the value None.        *)
(***************************************************************************)
EXTENDS Integers, Sequences, FiniteSets, TLC

\* ---------------------------------------------------------------- bounds
\* retry ceiling handed to structure_consecutive_problems (--retry-step4b)
MaxRetries == 2
\* how many times main() is invoked on the same intermediate directory
MaxRuns == 2
\* longest answer-token list handed to format_answer_info
MaxAnswers == 3

VARIABLES
    \* --- intermediate directory (files on disk) ---
    step3b_file,        \* step3b_consecutive_chunks.json
    step4_file,         \* step4_structured_problems.json
    step4b_file,        \* step4b_structured_consecutive.json
    answer_key_file,    \* step5a_parsed_answer_key.json
    mapping_files,      \* <<step4c_image_mapping.json, step4d_consecutive_image_mapping.json>>
    integrated_file,    \* step5b_integrated.json
    unmatched_file,     \* step5b_unmatched_answers.json
    \* --- main(): position in the pipeline ---
    pc,                 \* next stage of the current run
    runs,               \* number of completed runs of main()
    \* --- structure_consecutive_problems: loop state ---
    chunk_i,            \* index of the chunk being structured
    attempt,            \* attempt number inside the retry loop
    structured_data_list,
    \* --- integrate_answers: what its last call returned and read ---
    ret5b,              \* "notrun", "none" (returned None) or "path"
    last_inputs,        \* the input files as the last call found them
    wrote_unmatched,    \* the last call wrote step5b_unmatched_answers.json
    calls5b,            \* number of calls of integrate_answers so far
    repeat5b,           \* the last call read what the call before it read, which succeeded
    \* --- format_answer_info called on its own ---
    fmt_in,             \* the answer_list argument
    fmt_out,            \* the returned dict
    fmt_pc,
    \* --- reorder_text (step 2) ---
    ro_readable,        \* step1_raw_extraction.json can be opened and parsed
    ro_pages,           \* all_pages_data
    ro_i,               \* index of the page the loop is at
    ro_text,            \* full_text, as its lines
    ro_pc,              \* "open", "loop", "written" or "none" (returned None)
    \* --- chunk_consecutive_questions (step 3b) ---
    ck_exists,          \* step2_reordered_text.txt exists
    ck_full,            \* full_text, as read
    ck_text,            \* text_content, after the pre-processing
    ck_matches,         \* matches of start_pattern
    ck_i,               \* index of the match the loop is at
    ck_chunks,          \* consecutive_chunks
    ck_out,             \* step3b_consecutive_chunks.json
    ck_pc,              \* "read", "loop", "written"
    \* --- map_images_to_questions (4c) and map_consecutive_images (4d) ---
    im_readable,        \* step1_raw_extraction.json of the image PDF can be read
    im_raw,             \* raw_data_per_page / raw_data
    im_chunks,          \* step3b_consecutive_chunks.json
    im_warnings,        \* the warnings step 4c has printed, as their captions
    im_out4c,           \* step4c_image_mapping.json
    im_out4d,           \* step4d_consecutive_image_mapping.json
    im_pc,              \* "4c", "4d" or "end"
    \* --- main(): one PDF of an exam and the exam's post-processing ---
    mn_type,            \* file_type of the PDF: "text" or "image"
    mn_disk,            \* the artifacts in the intermediate directory
    mn_outputs,         \* the steps whose entry in step_outputs is a path
    mn_invoked,         \* the stage functions called in this run
    mn_failed,          \* the steps that returned None in this run
    mn_pc,              \* the step main() is at
    mn_runs,            \* number of completed runs of main()
    \* --- parse_answer_key (step 5a): the loop over the pages ---
    ka_pages,           \* pages_data: for each page, whether it carries text
    ka_i,               \* index of the page the loop is at
    ka_attempt,         \* attempt of the retry loop
    ka_answers,         \* the pages whose answers all_answers holds
    ka_calls,           \* number of calls of call_llm so far
    ka_waited,          \* time.sleep(rate_limit_wait) has run since the last call
    ka_pc,              \* "page", "sleep", "written" or "none" (returned None)
    \* --- integrate_answers called on any list of mapping files ---
    mg_single,          \* the step-4 file of the exam
    mg_consecutive,     \* the step-4b file of the exam
    mg_key,             \* the parsed answer key of the exam
    mg_paths,           \* image_mapping_paths: the mapping files, in order
    mg_i,               \* index of the mapping file read next
    mg_mappings,        \* image_mappings
    mg_out,             \* the canonical artifact
    mg_pc,              \* "load", "integrate", "written" or "none" (returned None)
    \* --- the retry loops of steps 3, 4, 4b and 5a ---
    rt_step,            \* the step that runs: "3", "4", "4b" or "5a"
    rt_work,            \* per unit: the unit is sent to the language model
    rt_u,               \* index of the unit the outer loop is at
    rt_attempt,         \* attempt of the inner loop, counted from 0
    rt_calls,           \* per unit: the calls made so far
    rt_ok,              \* per unit: a call has succeeded
    rt_pc               \* "unit", "call" or "done"

\* the variables of reorder_text
reorder == <<ro_readable, ro_pages, ro_i, ro_text, ro_pc>>

\* the variables of chunk_consecutive_questions
chunker == <<ck_exists, ck_full, ck_text, ck_matches, ck_i, ck_chunks, ck_out, ck_pc>>

\* the variables of the two image mappers
imaging == <<im_readable, im_raw, im_chunks, im_warnings, im_out4c, im_out4d, im_pc>>

\* the variables of main()
mainv == <<mn_type, mn_disk, mn_outputs, mn_invoked, mn_failed, mn_pc, mn_runs>>

\* the variables of parse_answer_key
keyparse == <<ka_pages, ka_i, ka_attempt, ka_answers, ka_calls, ka_waited, ka_pc>>

\* the variables of integrate_answers called on its own
merge == <<mg_single, mg_consecutive, mg_key, mg_paths, mg_i, mg_mappings, mg_out, mg_pc>>

\* the variables of the retry loops
retry == <<rt_step, rt_work, rt_u, rt_attempt, rt_calls, rt_ok, rt_pc>>

\* the variables of the stages that are modelled on their own
aux == <<reorder, chunker, imaging, mainv, keyparse, merge, retry>>

vars == <<step3b_file, step4_file, step4b_file, answer_key_file, mapping_files,
          integrated_file, unmatched_file, pc, runs, chunk_i, attempt,
          structured_data_list, ret5b, last_inputs, wrote_unmatched, calls5b, repeat5b,
          fmt_in, fmt_out, fmt_pc, aux>>

\* ------------------------------------------------------- python strings
\* JSON null / Python None in a number field
None == -1

\* the characters that occur, in increasing code-point order
CodePoints == <<"-", ".", "0", "1", "2", "3", "4", "5", "6", "7", "8", "9",
                "A", "B", "C", "D", "E", "X", "Z", "_",
                "a", "b", "c", "d", "e", "p", "t", "x", "z">>

Ord(c) == CHOOSE i \in 1..Len(CodePoints) : CodePoints[i] = c

DigitChars == <<"0", "1", "2", "3", "4", "5", "6", "7", "8", "9">>

IsDigit(c) == \E i \in 1..10 : DigitChars[i] = c

DigitVal(c) == (CHOOSE i \in 1..10 : DigitChars[i] = c) - 1

UpperChars == <<"A", "B", "C", "D", "E", "X", "Z">>

LowerChars == <<"a", "b", "c", "d", "e", "x", "z">>

IsUpper(c) == \E i \in 1..Len(UpperChars) : UpperChars[i] = c

IsLower(c) == \E i \in 1..Len(LowerChars) : LowerChars[i] = c \/ c \in {"p", "t"}

\* [A-Za-z]
IsLetter(c) == IsUpper(c) \/ IsLower(c)

\* str.lower() on one character
LowerChar(c) ==
    IF \E i \in 1..Len(UpperChars) : UpperChars[i] = c
    THEN LowerChars[CHOOSE i \in 1..Len(UpperChars) : UpperChars[i] = c]
    ELSE c

\* str.upper() on one character
UpperChar(c) ==
    IF \E i \in 1..Len(LowerChars) : LowerChars[i] = c
    THEN UpperChars[CHOOSE i \in 1..Len(LowerChars) : LowerChars[i] = c]
    ELSE c

\* str.lower()
Lower(s) == [i \in 1..Len(s) |-> LowerChar(s[i])]

\* str(n) for a non-negative int
RECURSIVE Digits(_)
Digits(n) == IF n < 10 THEN <<DigitChars[n + 1]>>
             ELSE Digits(n \div 10) \o <<DigitChars[(n % 10) + 1]>>

\* int(s) for a string of decimal digits
RECURSIVE IntOf(_)
IntOf(s) == IF s = <<>> THEN 0
            ELSE 10 * IntOf(SubSeq(s, 1, Len(s) - 1)) + DigitVal(s[Len(s)])

\* Python's str < str : lexicographic by code point
RECURSIVE StrLess(_, _)
StrLess(a, b) ==
    IF b = <<>> THEN FALSE
    ELSE IF a = <<>> THEN TRUE
    ELSE IF a[1] # b[1] THEN Ord(a[1]) < Ord(b[1])
    ELSE StrLess(Tail(a), Tail(b))

\* length of the longest prefix of s matching \d*
RECURSIVE DigitSpan(_)
DigitSpan(s) == IF s = <<>> \/ ~IsDigit(s[1]) THEN 0 ELSE 1 + DigitSpan(Tail(s))

\* length of the longest prefix of s matching [A-Za-z]*
RECURSIVE LetterSpan(_)
LetterSpan(s) == IF s = <<>> \/ ~IsLetter(s[1]) THEN 0 ELSE 1 + LetterSpan(Tail(s))

\* --------------------------------------------------- format_answer_info
\* float(token) succeeds: the decimal literals  d+ | d+.d* | .d+
\* (the tokens of the model carry no sign, exponent, inf or nan)
FloatParses(tok) ==
    LET n1  == DigitSpan(tok)
        r1  == SubSeq(tok, n1 + 1, Len(tok))
    IN  IF r1 = <<>> THEN n1 > 0
        ELSE /\ r1[1] = "."
             /\ DigitSpan(Tail(r1)) = Len(r1) - 1
             /\ n1 + Len(r1) - 1 > 0

\* the fraction digits of a float with its trailing zeros removed
RECURSIVE StripZeros(_)
StripZeros(ds) == IF ds # <<>> /\ ds[Len(ds)] = "0"
                  THEN StripZeros(SubSeq(ds, 1, Len(ds) - 1)) ELSE ds

\* float(token), as the pair (integer part, significant fraction digits)
FloatOf(tok) ==
    LET n1 == DigitSpan(tok)
    IN  [whole |-> IntOf(SubSeq(tok, 1, n1)),
         frac  |-> StripZeros(SubSeq(tok, n1 + 2, Len(tok)))]

\* the dict {} / {"value": v, "unit": None} / {"choices": [...]}
format_answer_info(answer_list) ==
    IF answer_list = <<>> THEN <<>>
    ELSE LET first_answer == answer_list[1]
         IN  IF FloatParses(first_answer)
             THEN LET float_val == FloatOf(first_answer)
                      int_val   == [whole |-> float_val.whole, frac |-> <<>>]
                  IN  [value |-> IF int_val = float_val THEN int_val ELSE float_val,
                       unit  |-> None]
             ELSE [choices |-> [i \in 1..Len(answer_list) |-> Lower(answer_list[i])]]

\* ------------------------------------------------------------ json, dict
\* a file of the intermediate directory
NoFile == [exists |-> FALSE, data |-> <<>>]

File(d) == [exists |-> TRUE, data |-> d]

\* d[k] = v on a JSON object
Put(r, k, v) == [x \in DOMAIN r \cup {k} |-> IF x = k THEN v ELSE r[x]]

\* k in d
Has(r, k) == k \in DOMAIN r

\* the elements of a list, as a set
Range(s) == {s[i] : i \in 1..Len(s)}

\* a dict is the sequence of its [key, val] items in insertion order
DictKeys(d) == {d[i].key : i \in 1..Len(d)}

DictGet(d, k) == d[CHOOSE i \in 1..Len(d) : d[i].key = k].val

\* ------------------------------------------- step 4b: rule-based join keys
\* the stem of the question PDF whose chunks step 4b structures
PdfStem == <<"t", "p", "2", "4", "0", "4", "2", "4", "-", "0", "1", "c", "_", "0", "1">>

\* re.search(r'-(\d{2})([a-zA-Z])_', pdf_stem): the positions where it matches
BlockCharMatches(pdf_stem) ==
    {i \in 1..(Len(pdf_stem) - 4) :
        /\ pdf_stem[i] = "-"
        /\ IsDigit(pdf_stem[i + 1]) /\ IsDigit(pdf_stem[i + 2])
        /\ IsLetter(pdf_stem[i + 3])
        /\ pdf_stem[i + 4] = "_"}

\* block_char_match.group(2).upper() if block_char_match else "X"
BlockChar(pdf_stem) ==
    LET m == BlockCharMatches(pdf_stem)
    IN  IF m = {} THEN "X"
        ELSE UpperChar(pdf_stem[(CHOOSE i \in m : \A j \in m : i <= j) + 3])

SetMin(S) == CHOOSE x \in S : \A y \in S : x <= y

SetMax(S) == CHOOSE x \in S : \A y \in S : x >= y

\* f"{block_char}-{n}"
SingleJoinKey(block_char, n) == <<block_char, "-">> \o Digits(n)

\* f"{block_char}-{min(q_numbers)}-{max(q_numbers)}"
RangeJoinKey(block_char, lo, hi) == <<block_char, "-">> \o Digits(lo) \o <<"-">> \o Digits(hi)

\* q.get("problem_number") is not None
HasNumber(q) == Has(q, "problem_number") /\ q.problem_number # None

\* lines 112-116: the join key and the image list of one sub-question
RuleSubQuestion(sub_q, block_char) ==
    LET keyed == IF HasNumber(sub_q) /\ sub_q.problem_number # 0
                 THEN Put(sub_q, "join_key", SingleJoinKey(block_char, sub_q.problem_number))
                 ELSE sub_q
    IN  IF Has(keyed, "images") THEN keyed ELSE Put(keyed, "images", <<>>)

\* lines 98-121: what is appended to structured_data_list for an LLM answer
RuleBasedJoinKey(structured_data, chunk, pdf_stem) ==
    LET block_char == BlockChar(pdf_stem)
        sub_qs     == IF Has(structured_data, "sub_questions")
                      THEN structured_data.sub_questions ELSE <<>>
        q_numbers  == {sub_qs[i].problem_number : i \in {j \in 1..Len(sub_qs) : HasNumber(sub_qs[j])}}
        tagged     == Put(Put(structured_data, "problem_format", "consecutive"),
                          "join_key", RangeJoinKey(block_char, SetMin(q_numbers), SetMax(q_numbers)))
        with_case  == IF Has(tagged, "case_presentation") /\ ~Has(tagged.case_presentation, "images")
                      THEN Put(tagged, "case_presentation", Put(tagged.case_presentation, "images", <<>>))
                      ELSE tagged
        with_subs  == Put(with_case, "sub_questions",
                          [i \in 1..Len(sub_qs) |-> RuleSubQuestion(sub_qs[i], block_char)])
        ruled      == IF q_numbers # {} THEN with_subs ELSE structured_data
    IN  Put(Put(ruled, "source_pdf", chunk.source_pdf),
            "original_question_numbers", chunk.question_numbers)

\* line 131: the entry appended when the retries are exhausted
ErrorEntry(chunk) == [error |-> "Failed to parse", chunk |-> chunk]

\* ------------------------------------------------ step 5b: integration
\* problem.get("join_key") when the key is missing or null
NoStr == <<"None">>

\* problem.get("join_key")
GetJoinKey(problem) == IF Has(problem, "join_key") THEN problem.join_key ELSE NoStr

\* `if join_key:` -- neither None nor the empty string
Truthy(join_key) == join_key # NoStr /\ join_key # <<>>

\* problem["images"].sort(key=lambda x: x.get('path', '')): one insertion
\* of the stable sort, behind every element that is not greater
RECURSIVE InsertImage(_, _)
InsertImage(sorted, img) ==
    IF sorted = <<>> THEN <<img>>
    ELSE IF StrLess(img.path, sorted[1].path) THEN <<img>> \o sorted
    ELSE <<sorted[1]>> \o InsertImage(Tail(sorted), img)

RECURSIVE SortImages(_)
SortImages(images) ==
    IF images = <<>> THEN <<>>
    ELSE InsertImage(SortImages(SubSeq(images, 1, Len(images) - 1)), images[Len(images)])

\* lines 36-47: the image list after the mapping entry of join_key is added
IntegrateImages(problem, new_imgs) ==
    LET images         == IF Has(problem, "images") THEN problem.images ELSE <<>>
        existing_paths == {images[i].path : i \in 1..Len(images)}
        IsNew(new_img_info) == new_img_info.image_path \notin existing_paths
        fresh          == SelectSeq(new_imgs, IsNew)
        appended       == images \o [i \in 1..Len(fresh) |->
                                        [id |-> fresh[i].image_id, path |-> fresh[i].image_path]]
    IN  SortImages(appended)

\* lines 22-47 without the test of line 30: the answer is set from
\* answer_key.get(join_key) whether or not the key is in the table
integrate_data_answer_always(problem, answer_key, image_mappings) ==
    LET join_key == GetJoinKey(problem)
        answered == Put(problem, "answer",
                        IF join_key \in DictKeys(answer_key)
                        THEN format_answer_info(DictGet(answer_key, join_key))
                        ELSE <<>>)
    IN  IF ~Truthy(join_key) THEN problem
        ELSE IF join_key \in DictKeys(image_mappings)
             THEN Put(answered, "images", IntegrateImages(answered, DictGet(image_mappings, join_key)))
             ELSE answered

integrate_data_into_problem(problem, answer_key, image_mappings) ==
    LET join_key == GetJoinKey(problem)
        answered == IF join_key \in DictKeys(answer_key)
                    THEN Put(problem, "answer", format_answer_info(DictGet(answer_key, join_key)))
                    ELSE problem
    IN  IF ~Truthy(join_key) THEN problem
        ELSE IF join_key \in DictKeys(image_mappings)
             THEN Put(answered, "images", IntegrateImages(answered, DictGet(image_mappings, join_key)))
             ELSE answered

\* the tuple (char_part, num_part); inf marks float('inf')
SortKey(char_part, num_part, inf) == [char_part |-> char_part, num_part |-> num_part, inf |-> inf]

\* re.match(r"([A-Za-z]+)-(\d+)", join_key)
JoinKeyMatches(join_key) ==
    LET n == LetterSpan(join_key)
    IN  /\ n > 0
        /\ Len(join_key) > n
        /\ join_key[n + 1] = "-"
        /\ DigitSpan(SubSeq(join_key, n + 2, Len(join_key))) > 0

get_sort_key(join_key) ==
    IF join_key = NoStr THEN SortKey(<<>>, 0, TRUE)
    ELSE IF JoinKeyMatches(join_key)
         THEN LET n    == LetterSpan(join_key)
                  rest == SubSeq(join_key, n + 2, Len(join_key))
              IN  SortKey(SubSeq(join_key, 1, n), IntOf(SubSeq(rest, 1, DigitSpan(rest))), FALSE)
         ELSE SortKey(join_key, 0, TRUE)

\* problem_obj.get("problem_format")
GetFormat(problem_obj) == IF Has(problem_obj, "problem_format") THEN problem_obj.problem_format ELSE "None"

get_sort_key_for_problem(problem_obj) ==
    IF GetFormat(problem_obj) = "single"
    THEN get_sort_key(IF Has(problem_obj, "problem") THEN GetJoinKey(problem_obj.problem) ELSE NoStr)
    ELSE IF GetFormat(problem_obj) = "consecutive"
         THEN get_sort_key(GetJoinKey(problem_obj))
         ELSE SortKey(<<>>, 0, TRUE)

\* a comparison that looks at the character part only
KeyLessCharOnly(k1, k2) == StrLess(k1.char_part, k2.char_part)

\* Python's tuple comparison k1 < k2
KeyLess(k1, k2) ==
    \/ StrLess(k1.char_part, k2.char_part)
    \/ /\ k1.char_part = k2.char_part
       /\ ~k1.inf
       /\ (k2.inf \/ k1.num_part < k2.num_part)

\* all_problems.sort(key=get_sort_key_for_problem): a stable sort
RECURSIVE InsertProblem(_, _)
InsertProblem(sorted, problem_obj) ==
    IF sorted = <<>> THEN <<problem_obj>>
    ELSE IF KeyLess(get_sort_key_for_problem(problem_obj), get_sort_key_for_problem(sorted[1]))
         THEN <<problem_obj>> \o sorted
         ELSE <<sorted[1]>> \o InsertProblem(Tail(sorted), problem_obj)

RECURSIVE SortProblems(_)
SortProblems(all_problems) ==
    IF all_problems = <<>> THEN <<>>
    ELSE InsertProblem(SortProblems(SubSeq(all_problems, 1, Len(all_problems) - 1)),
                       all_problems[Len(all_problems)])

\* block.get("sub_questions", [])
SubQuestions(problem_block) ==
    IF Has(problem_block, "sub_questions") THEN problem_block.sub_questions ELSE <<>>

\* lines 81-94: the list read from the consecutive file (empty when unreadable)
LoadList(file) == IF file.exists THEN file.data ELSE <<>>

\* lines 89-92: the problem numbers of the sub-questions of all blocks
ConsecutiveQNumbers(consecutive_problems_data) ==
    UNION {{SubQuestions(consecutive_problems_data[b])[i].problem_number :
               i \in {j \in 1..Len(SubQuestions(consecutive_problems_data[b])) :
                         Has(SubQuestions(consecutive_problems_data[b])[j], "problem_number")}} :
           b \in 1..Len(consecutive_problems_data)}

\* line 108 without the test against the consecutive numbers
KeepSingleNoDedup(problem, consecutive_q_numbers) == HasNumber(problem)

\* line 108: the single problem is kept
KeepSingle(problem, consecutive_q_numbers) ==
    /\ HasNumber(problem)
    /\ problem.problem_number \notin consecutive_q_numbers

\* lines 109-113
WrapSingle(problem) ==
    [id |-> IF Has(problem, "id") THEN problem.id ELSE None,
     problem_format |-> "single",
     problem |-> problem]

\* lines 98-115 starting from the records of the artifact already on disk
AllProblemsIncremental(single_file, consecutive_file) ==
    LET consecutive_problems_data == LoadList(consecutive_file)
        consecutive_q_numbers     == ConsecutiveQNumbers(consecutive_problems_data)
        singles                   == LoadList(single_file)
        Kept(problem)             == KeepSingle(problem, consecutive_q_numbers)
        kept                      == SelectSeq(singles, Kept)
    IN  LoadList(integrated_file) \o consecutive_problems_data
            \o [i \in 1..Len(kept) |-> WrapSingle(kept[i])]

\* lines 98-115: the record set after de-duplication
AllProblems(single_file, consecutive_file) ==
    LET consecutive_problems_data == LoadList(consecutive_file)
        consecutive_q_numbers     == ConsecutiveQNumbers(consecutive_problems_data)
        singles                   == LoadList(single_file)
        Kept(problem)             == KeepSingle(problem, consecutive_q_numbers)
        kept                      == SelectSeq(singles, Kept)
    IN  consecutive_problems_data \o [i \in 1..Len(kept) |-> WrapSingle(kept[i])]

\* lines 137-140: one mapping file merged into image_mappings
RECURSIVE MergeMapping(_, _)
MergeMapping(image_mappings, data) ==
    IF data = <<>> THEN image_mappings
    ELSE LET key   == data[1].key
             value == data[1].val
             next  == IF key \in DictKeys(image_mappings)
                      THEN [i \in 1..Len(image_mappings) |->
                               IF image_mappings[i].key = key
                               THEN [key |-> key, val |-> image_mappings[i].val \o value]
                               ELSE image_mappings[i]]
                      ELSE Append(image_mappings, [key |-> key, val |-> value])
         IN  MergeMapping(next, Tail(data))

\* lines 131-142: all mapping files that exist, merged in path order
RECURSIVE LoadImageMappings(_)
LoadImageMappings(files) ==
    IF files = <<>> THEN <<>>
    ELSE MergeMapping(LoadImageMappings(SubSeq(files, 1, Len(files) - 1)),
                      LoadList(files[Len(files)]))

\* lines 146-159 with the answer table handed on to the case presentation
\* in line 154
IntegrateProblemCaseAnswered(problem_obj, answer_key, image_mappings) ==
    IF GetFormat(problem_obj) = "single"
    THEN Put(problem_obj, "problem",
             integrate_data_into_problem(problem_obj.problem, answer_key, image_mappings))
    ELSE IF GetFormat(problem_obj) = "consecutive"
         THEN LET with_case == IF Has(problem_obj, "case_presentation")
                               THEN Put(problem_obj, "case_presentation",
                                        integrate_data_into_problem(problem_obj.case_presentation,
                                                                    answer_key, image_mappings))
                               ELSE problem_obj
                  sub_qs    == SubQuestions(problem_obj)
              IN  IF Has(problem_obj, "sub_questions")
                  THEN Put(with_case, "sub_questions",
                           [i \in 1..Len(sub_qs) |->
                               integrate_data_into_problem(sub_qs[i], answer_key, image_mappings)])
                  ELSE with_case
         ELSE problem_obj

\* lines 146-159: answers and images integrated into one record
IntegrateProblem(problem_obj, answer_key, image_mappings) ==
    IF GetFormat(problem_obj) = "single"
    THEN Put(problem_obj, "problem",
             integrate_data_into_problem(problem_obj.problem, answer_key, image_mappings))
    ELSE IF GetFormat(problem_obj) = "consecutive"
         THEN LET with_case == IF Has(problem_obj, "case_presentation")
                               THEN Put(problem_obj, "case_presentation",
                                        integrate_data_into_problem(problem_obj.case_presentation,
                                                                    <<>>, image_mappings))
                               ELSE problem_obj
                  sub_qs    == SubQuestions(problem_obj)
              IN  IF Has(problem_obj, "sub_questions")
                  THEN Put(with_case, "sub_questions",
                           [i \in 1..Len(sub_qs) |->
                               integrate_data_into_problem(sub_qs[i], answer_key, image_mappings)])
                  ELSE with_case
         ELSE problem_obj

\* lines 150-159 without line 155, the block's own join key
UsedJoinKeysNoBlock(all_problems) ==
    UNION {IF GetFormat(all_problems[p]) = "single"
           THEN {GetJoinKey(all_problems[p].problem)}
           ELSE IF GetFormat(all_problems[p]) = "consecutive"
                THEN {GetJoinKey(SubQuestions(all_problems[p])[i]) :
                         i \in 1..Len(SubQuestions(all_problems[p]))}
                ELSE {} : p \in 1..Len(all_problems)}
    \ {NoStr, <<>>}

\* lines 150-159: the join keys the loop has looked at
UsedJoinKeys(all_problems) ==
    UNION {IF GetFormat(all_problems[p]) = "single"
           THEN {GetJoinKey(all_problems[p].problem)}
           ELSE IF GetFormat(all_problems[p]) = "consecutive"
                THEN {GetJoinKey(all_problems[p])}
                     \cup {GetJoinKey(SubQuestions(all_problems[p])[i]) :
                              i \in 1..Len(SubQuestions(all_problems[p]))}
                ELSE {} : p \in 1..Len(all_problems)}
    \ {NoStr, <<>>}

\* line 174-181: the keys of the answer table that were not used, in table order
UnmatchedAnswers(answer_key, used_join_keys) ==
    LET Unused(item) == item.key \notin used_join_keys
        items        == SelectSeq(answer_key, Unused)
    IN  [i \in 1..Len(items) |-> items[i].key]

\* integrate_answers without the early return of lines 117-119
integrate_answers_no_abort(single_file, consecutive_file, parsed_answer_key_file, image_mapping_files) ==
    LET all_problems   == AllProblems(single_file, consecutive_file)
        answer_key     == LoadList(parsed_answer_key_file)
        image_mappings == LoadImageMappings(image_mapping_files)
        integrated     == [i \in 1..Len(all_problems) |->
                              IntegrateProblem(all_problems[i], answer_key, image_mappings)]
    IN  [ret       |-> "path",
         records   |-> SortProblems(integrated),
         unmatched |-> UnmatchedAnswers(answer_key, UsedJoinKeys(all_problems))]

\* integrate_answers as a function of the files it reads: what it returns,
\* the record list it writes and the unmatched keys it computes
integrate_answers(single_file, consecutive_file, parsed_answer_key_file, image_mapping_files) ==
    LET all_problems   == AllProblems(single_file, consecutive_file)
        answer_key     == LoadList(parsed_answer_key_file)
        image_mappings == LoadImageMappings(image_mapping_files)
        integrated     == [i \in 1..Len(all_problems) |->
                              IntegrateProblem(all_problems[i], answer_key, image_mappings)]
    IN  IF all_problems = <<>>
        THEN [ret |-> "none", records |-> <<>>, unmatched |-> <<>>]
        ELSE [ret       |-> "path",
              records   |-> SortProblems(integrated),
              unmatched |-> UnmatchedAnswers(answer_key, UsedJoinKeys(all_problems))]

\* ------------------------------------------------- inputs of the stages
\* one span of step3b_consecutive_chunks.json (questions lo..hi)
Chunk(lo, hi) == [source_pdf       |-> PdfStem \o <<".", "p", "d", "f">>,
                  type             |-> "consecutive",
                  question_numbers |-> [i \in 1..(hi - lo + 1) |-> lo + i - 1],
                  text             |-> <<"x">> \o Digits(lo)]

\* what chunk_consecutive_questions can have written
ChunkLists == {<<>>, <<Chunk(1, 3)>>, <<Chunk(1, 3), Chunk(4, 5)>>}

\* the JSON objects the language model can answer for one chunk in step 4b:
\* every sub-question, only the first and the last one, sub-questions
\* without a number, or the case presentation alone
LLMAnswers(chunk) ==
    LET qn == chunk.question_numbers
    IN  {[case_presentation |-> [text |-> chunk.text],
          sub_questions     |-> [i \in 1..Len(qn) |-> [problem_number |-> qn[i]]]],
         [case_presentation |-> [text |-> chunk.text, images |-> <<>>],
          sub_questions     |-> <<[problem_number |-> qn[1]], [problem_number |-> qn[Len(qn)]]>>],
         [case_presentation |-> [text |-> chunk.text],
          sub_questions     |-> <<[problem_number |-> None]>>],
         [case_presentation |-> [text |-> chunk.text]]}

\* a single question as step 4 structures it
Question(id, block, n) == [id |-> id, problem_number |-> n, join_key |-> SingleJoinKey(block, n)]

\* what structure_problems can have written: the language model's records,
\* with the number or the join key missing, null or malformed in some
SingleLists ==
    {<<>>,
     <<Question(1, "C", 10), Question(2, "C", 2)>>,
     <<Question(1, "C", 6),
       [id |-> 2, join_key |-> SingleJoinKey("C", 7)],
       [id |-> 3, problem_number |-> None, join_key |-> SingleJoinKey("C", 2)],
       [id |-> 4, problem_number |-> 8]>>,
     <<[id |-> 1, problem_number |-> 9, join_key |-> <<"B">>], Question(2, "A", 1)>>}

Item(k, v) == [key |-> k, val |-> v]

\* what parse_answer_key can have written (never an empty table)
AnswerKeys ==
    {<<Item(SingleJoinKey("A", 1), <<<<"B">>>>),
       Item(SingleJoinKey("Z", 9), <<<<"1">>>>),
       Item(SingleJoinKey("C", 10), <<<<"B">>, <<"E">>>>)>>,
     <<Item(SingleJoinKey("C", 1), <<<<"3">>, <<"B">>>>),
       Item(RangeJoinKey("C", 1, 3), <<<<"a">>>>),
       Item(SingleJoinKey("C", 2), <<<<"2", ".", "5">>>>)>>}

Image(path, id) == [image_path |-> path, image_id |-> id, source_page |-> 1]

\* what map_images_to_questions can have written
SingleMappings ==
    {<<Item(SingleJoinKey("C", 2), <<Image(<<"a">>, "A")>>),
       Item(SingleJoinKey("A", 1), <<Image(<<"c">>, "A"), Image(<<"d">>, "B")>>),
       Item(SingleJoinKey("C", 1), <<Image(<<"b">>, "A")>>)>>}

\* what map_consecutive_images can have written
ConsecutiveMappings ==
    {<<Item(RangeJoinKey("C", 1, 3), <<Image(<<"e">>, "A")>>)>>}

\* the token lists format_answer_info is tried on
Tokens == {<<"3">>, <<"1", "2">>, <<"2", ".", "5">>, <<"3", ".", "0">>, <<"B">>, <<"a">>}

AnswerLists == UNION {[1..n -> Tokens] : n \in 0..MaxAnswers}

\* ------------------------------------------------------------ the pipeline
\* the stages of one run of main() for one exam, in the order they run
Stages == <<"3b", "4", "4b", "4c", "4d", "5a", "5b">>

\* the stages a rerun on the same intermediate directory repeats (--steps 4 5b)
RerunSteps == {"4", "5b"}

StageAfter(stage) ==
    LET i == CHOOSE j \in 1..Len(Stages) : Stages[j] = stage
    IN  IF i < Len(Stages) THEN Stages[i + 1] ELSE "end"

\* the stage is among the steps selected for this run
Selected(stage) == pc = stage /\ (runs = 0 \/ stage \in RerunSteps)

files == <<step3b_file, step4_file, step4b_file, answer_key_file, mapping_files,
           integrated_file, unmatched_file>>

loop4b == <<chunk_i, attempt, structured_data_list>>

hist5b == <<ret5b, last_inputs, wrote_unmatched, calls5b, repeat5b>>

fmt == <<fmt_in, fmt_out, fmt_pc>>

\* the variables of the integration pipeline
integ == <<files, pc, runs, loop4b, hist5b>>

\* reorder_text is not running
IdleReorder ==
    /\ ro_readable = FALSE
    /\ ro_pages = <<>>
    /\ ro_i = 0
    /\ ro_text = <<>>
    /\ ro_pc = "idle"

\* chunk_consecutive_questions is not running
IdleChunker ==
    /\ ck_exists = FALSE
    /\ ck_full = <<>>
    /\ ck_text = <<>>
    /\ ck_matches = <<>>
    /\ ck_i = 0
    /\ ck_chunks = <<>>
    /\ ck_out = NoFile
    /\ ck_pc = "idle"

\* the image mappers are not running
IdleImaging ==
    /\ im_readable = FALSE
    /\ im_raw = <<>>
    /\ im_chunks = NoFile
    /\ im_warnings = <<>>
    /\ im_out4c = NoFile
    /\ im_out4d = NoFile
    /\ im_pc = "idle"

\* main() is not running
IdleMain ==
    /\ mn_type = "none"
    /\ mn_disk = {}
    /\ mn_outputs = {}
    /\ mn_invoked = {}
    /\ mn_failed = {}
    /\ mn_pc = "idle"
    /\ mn_runs = 0

\* parse_answer_key is not running
IdleKeyParse ==
    /\ ka_pages = <<>>
    /\ ka_i = 0
    /\ ka_attempt = 0
    /\ ka_answers = {}
    /\ ka_calls = 0
    /\ ka_waited = FALSE
    /\ ka_pc = "idle"

\* integrate_answers is not called on its own
IdleMerge ==
    /\ mg_single = NoFile
    /\ mg_consecutive = NoFile
    /\ mg_key = NoFile
    /\ mg_paths = <<>>
    /\ mg_i = 0
    /\ mg_mappings = <<>>
    /\ mg_out = NoFile
    /\ mg_pc = "idle"

\* no retry loop is running
IdleRetry ==
    /\ rt_step = "none"
    /\ rt_work = <<>>
    /\ rt_u = 0
    /\ rt_attempt = 0
    /\ rt_calls = <<>>
    /\ rt_ok = <<>>
    /\ rt_pc = "idle"

\* none of the stages modelled on their own is running
AuxIdle ==
    IdleReorder /\ IdleChunker /\ IdleImaging /\ IdleMain /\ IdleKeyParse /\ IdleMerge /\ IdleRetry

\* the files integrate_answers is handed by main()
Inputs5b == [single |-> step4_file, consecutive |-> step4b_file,
             answer_key |-> answer_key_file, mappings |-> mapping_files]

Init ==
    /\ step3b_file = NoFile
    /\ step4_file = NoFile
    /\ step4b_file = NoFile
    /\ answer_key_file = NoFile
    /\ mapping_files = <<NoFile, NoFile>>
    /\ integrated_file = NoFile
    /\ unmatched_file = NoFile
    /\ pc = "3b"
    /\ runs = 0
    /\ chunk_i = 0
    /\ attempt = 0
    /\ structured_data_list = <<>>
    /\ ret5b = "notrun"
    /\ last_inputs = Inputs5b
    /\ wrote_unmatched = FALSE
    /\ calls5b = 0
    /\ repeat5b = FALSE
    /\ fmt_in = <<>>
    /\ fmt_out = <<>>
    /\ fmt_pc = "idle"
    /\ AuxIdle

\* a stage that is not among --steps, or whose run_step wrapper finds its
\* input missing, is passed over
SkipStage ==
    /\ pc \in Range(Stages)
    /\ pc' = StageAfter(pc)
    /\ UNCHANGED <<files, runs, loop4b, hist5b, fmt, aux>>

\* step 3b: chunk_consecutive_questions writes its span list
Step3b ==
    /\ Selected("3b")
    /\ \E chunks \in ChunkLists : step3b_file' = File(chunks)
    /\ pc' = StageAfter("3b")
    /\ UNCHANGED <<step4_file, step4b_file, answer_key_file, mapping_files,
                   integrated_file, unmatched_file, runs, loop4b, hist5b, fmt, aux>>

\* step 4: structure_problems writes the single questions
Step4 ==
    /\ Selected("4")
    /\ \E problems \in SingleLists : step4_file' = File(problems)
    /\ pc' = StageAfter("4")
    /\ UNCHANGED <<step3b_file, step4b_file, answer_key_file, mapping_files,
                   integrated_file, unmatched_file, runs, loop4b, hist5b, fmt, aux>>

\* step 4b, lines 45-72: read the chunks; nothing to do, or enter the loop.
\* configured: GOOGLE_API_KEY is set and the prompt template is found
\* (lines 59-69); without them the stage returns None and writes nothing.
Step4bStart ==
    /\ Selected("4b")
    /\ \E configured \in BOOLEAN :
          IF ~step3b_file.exists
          THEN /\ pc' = StageAfter("4b")
               /\ UNCHANGED <<step4b_file, loop4b>>
          ELSE IF step3b_file.data = <<>>
               THEN /\ step4b_file' = File(<<>>)
                    /\ pc' = StageAfter("4b")
                    /\ UNCHANGED loop4b
               ELSE IF ~configured
                    THEN /\ pc' = StageAfter("4b")
                         /\ UNCHANGED <<step4b_file, loop4b>>
                    ELSE /\ pc' = "4b_call"
                         /\ chunk_i' = 1
                         /\ attempt' = 0
                         /\ structured_data_list' = <<>>
                         /\ UNCHANGED step4b_file
    /\ UNCHANGED <<step3b_file, step4_file, answer_key_file, mapping_files,
                   integrated_file, unmatched_file, runs, hist5b, fmt, aux>>

\* step 4b, lines 74 and 138-143: on to the next chunk, or write the file
NextChunk(list) ==
    IF chunk_i < Len(step3b_file.data)
    THEN /\ chunk_i' = chunk_i + 1
         /\ attempt' = 0
         /\ structured_data_list' = list
         /\ pc' = "4b_call"
         /\ UNCHANGED step4b_file
    ELSE /\ step4b_file' = File(list)
         /\ chunk_i' = 0
         /\ attempt' = 0
         /\ structured_data_list' = <<>>
         /\ pc' = StageAfter("4b")

\* step 4b, lines 88-125: the call returns parsable JSON
Step4bCallOk ==
    /\ pc = "4b_call"
    /\ attempt < MaxRetries
    /\ \E structured_data \in LLMAnswers(step3b_file.data[chunk_i]) :
          NextChunk(Append(structured_data_list,
                           RuleBasedJoinKey(structured_data, step3b_file.data[chunk_i], PdfStem)))
    /\ UNCHANGED <<step3b_file, step4_file, answer_key_file, mapping_files,
                   integrated_file, unmatched_file, runs, hist5b, fmt, aux>>

\* step 4b, lines 127-133: the call or the parsing of its answer raises
Step4bCallFail ==
    /\ pc = "4b_call"
    /\ attempt < MaxRetries
    /\ IF attempt + 1 = MaxRetries
       THEN NextChunk(Append(structured_data_list, ErrorEntry(step3b_file.data[chunk_i])))
       ELSE /\ attempt' = attempt + 1
            /\ UNCHANGED <<chunk_i, structured_data_list, step4b_file, pc>>
    /\ UNCHANGED <<step3b_file, step4_file, answer_key_file, mapping_files,
                   integrated_file, unmatched_file, runs, hist5b, fmt, aux>>

\* step 4c: map_images_to_questions writes its mapping
Step4c ==
    /\ Selected("4c")
    /\ \E mapping \in SingleMappings : mapping_files' = <<File(mapping), mapping_files[2]>>
    /\ pc' = StageAfter("4c")
    /\ UNCHANGED <<step3b_file, step4_file, step4b_file, answer_key_file,
                   integrated_file, unmatched_file, runs, loop4b, hist5b, fmt, aux>>

\* step 4d: map_consecutive_images writes its mapping
Step4d ==
    /\ Selected("4d")
    /\ \E mapping \in ConsecutiveMappings : mapping_files' = <<mapping_files[1], File(mapping)>>
    /\ pc' = StageAfter("4d")
    /\ UNCHANGED <<step3b_file, step4_file, step4b_file, answer_key_file,
                   integrated_file, unmatched_file, runs, loop4b, hist5b, fmt, aux>>

\* step 5a: parse_answer_key writes the answer table
Step5a ==
    /\ Selected("5a")
    /\ \E table \in AnswerKeys : answer_key_file' = File(table)
    /\ pc' = StageAfter("5a")
    /\ UNCHANGED <<step3b_file, step4_file, step4b_file, mapping_files,
                   integrated_file, unmatched_file, runs, loop4b, hist5b, fmt, aux>>

\* step 5b: run_step5b calls integrate_answers (lines 67-190) when main()
\* found a step-4 or a step-4b artifact for the exam (main.py lines 199-201,
\* 547-555); with neither, the stage falls under SkipStage
Step5b ==
    /\ Selected("5b")
    /\ step4_file.exists \/ step4b_file.exists
    /\ LET result == integrate_answers(step4_file, step4b_file, answer_key_file, mapping_files)
       IN  /\ ret5b' = result.ret
           /\ IF result.ret = "path"
              THEN /\ integrated_file' = File(result.records)
                   /\ IF result.unmatched # <<>>
                      THEN unmatched_file' = File(result.unmatched) /\ wrote_unmatched' = TRUE
                      ELSE UNCHANGED unmatched_file /\ wrote_unmatched' = FALSE
              ELSE /\ UNCHANGED <<integrated_file, unmatched_file>>
                   /\ wrote_unmatched' = FALSE
    /\ last_inputs' = Inputs5b
    /\ calls5b' = calls5b + 1
    /\ repeat5b' = (ret5b = "path" /\ last_inputs = Inputs5b)
    /\ pc' = StageAfter("5b")
    /\ UNCHANGED <<step3b_file, step4_file, step4b_file, answer_key_file, mapping_files,
                   runs, loop4b, fmt, aux>>

\* main() is started again on the same intermediate directory
Rerun ==
    /\ pc = "end"
    /\ runs + 1 < MaxRuns
    /\ runs' = runs + 1
    /\ pc' = Stages[1]
    /\ UNCHANGED <<files, loop4b, hist5b, fmt, aux>>

Next ==
    \/ SkipStage
    \/ Step3b
    \/ Step4
    \/ Step4bStart
    \/ Step4bCallOk
    \/ Step4bCallFail
    \/ Step4c
    \/ Step4d
    \/ Step5a
    \/ Step5b
    \/ Rerun

Spec == Init /\ [][Next]_vars

\* ------------------------------------- format_answer_info called directly
InitFmt ==
    /\ step3b_file = NoFile
    /\ step4_file = NoFile
    /\ step4b_file = NoFile
    /\ answer_key_file = NoFile
    /\ mapping_files = <<NoFile, NoFile>>
    /\ integrated_file = NoFile
    /\ unmatched_file = NoFile
    /\ pc = "end"
    /\ runs = 0
    /\ chunk_i = 0
    /\ attempt = 0
    /\ structured_data_list = <<>>
    /\ ret5b = "notrun"
    /\ last_inputs = Inputs5b
    /\ wrote_unmatched = FALSE
    /\ calls5b = 0
    /\ repeat5b = FALSE
    /\ fmt_in \in AnswerLists
    /\ fmt_out = <<>>
    /\ fmt_pc = "call"
    /\ AuxIdle

FormatAnswer ==
    /\ fmt_pc = "call"
    /\ fmt_out' = format_answer_info(fmt_in)
    /\ fmt_pc' = "done"
    /\ UNCHANGED <<files, pc, runs, loop4b, hist5b, fmt_in, aux>>

NextFmt == FormatAnswer

SpecFmt == InitFmt /\ [][NextFmt]_vars

\* the integration pipeline and format_answer_info are not running
IdleIntegration ==
    /\ step3b_file = NoFile
    /\ step4_file = NoFile
    /\ step4b_file = NoFile
    /\ answer_key_file = NoFile
    /\ mapping_files = <<NoFile, NoFile>>
    /\ integrated_file = NoFile
    /\ unmatched_file = NoFile
    /\ pc = "end"
    /\ runs = 0
    /\ chunk_i = 0
    /\ attempt = 0
    /\ structured_data_list = <<>>
    /\ ret5b = "notrun"
    /\ last_inputs = Inputs5b
    /\ wrote_unmatched = FALSE
    /\ calls5b = 0
    /\ repeat5b = FALSE
    /\ fmt_in = <<>>
    /\ fmt_out = <<>>
    /\ fmt_pc = "idle"

\* ------------------------------------------------- step 2: reorder_text
\* most blocks on one page, most pages in one raw extraction
MaxBlocks == 3
MaxPages == 2

\* a text block as extract_raw_data writes it
Block(text, x0, y0) == [text |-> text, bbox |-> <<x0, y0, x0 + 1, y0 + 1>>]

\* the blocks a page is made of: three well-formed ones (two share y0, two
\* share x0) and one without bbox
BlockPool ==
    {Block(<<"a">>, 1, 0), Block(<<"b">>, 0, 0), Block(<<"c">>, 0, 1),
     [text |-> <<"d">>]}

\* the block lists of a page: a block stands on its page once
BlockLists ==
    UNION {{bl \in [1..n -> BlockPool] : \A i, j \in 1..n : bl[i] = bl[j] => i = j} :
              n \in 0..MaxBlocks}

\* b["bbox"][1], b["bbox"][0] raise KeyError / IndexError
BboxRaises(b) == ~Has(b, "bbox") \/ Len(b.bbox) < 2

\* the blocks compared by bbox[1] alone
BlockKeyLessYOnly(a, b) == a.bbox[2] < b.bbox[2]

\* the sort key (b["bbox"][1], b["bbox"][0]) compared as Python compares tuples
BlockKeyLess(a, b) ==
    \/ a.bbox[2] < b.bbox[2]
    \/ a.bbox[2] = b.bbox[2] /\ a.bbox[1] < b.bbox[1]

RECURSIVE InsertBlock(_, _)
InsertBlock(sorted, b) ==
    IF sorted = <<>> THEN <<b>>
    ELSE IF BlockKeyLess(b, sorted[Len(sorted)])
         THEN Append(InsertBlock(SubSeq(sorted, 1, Len(sorted) - 1), b), sorted[Len(sorted)])
         ELSE Append(sorted, b)

RECURSIVE SortBlocks(_)
SortBlocks(blocks) ==
    IF blocks = <<>> THEN <<>>
    ELSE InsertBlock(SortBlocks(SubSeq(blocks, 1, Len(blocks) - 1)), blocks[Len(blocks)])

\* sorted(text_blocks, key=...) with the fallback of the except branch
SortedBlocks(text_blocks) ==
    IF \E i \in 1..Len(text_blocks) : BboxRaises(text_blocks[i])
    THEN text_blocks
    ELSE SortBlocks(text_blocks)

\* block.get("text", "")
BlockText(b) == IF Has(b, "text") THEN b.text ELSE <<>>

\* f"--- Page {page_num} ---"
PageMarker(page_num) == <<"--- Page ">> \o Digits(page_num) \o <<" ---">>

\* the lines one page adds to full_text: the marker, "\n".join of the block
\* texts, and the empty line left by the closing "\n\n"
PageLines(page_data) ==
    LET sorted_blocks == SortedBlocks(page_data.text_blocks)
    IN  <<PageMarker(page_data.page_number)>>
        \o [i \in 1..Len(sorted_blocks) |-> BlockText(sorted_blocks[i])]
        \o << <<>> >>

\* a raw extraction; pages are numbered from 1
Pages(n, bl) == [i \in 1..n |-> [page_number |-> i, text_blocks |-> bl[i]]]

\* reorder_text is run on a raw extraction of up to MaxPages pages, or on a
\* file that cannot be read
InitReorder ==
    /\ IdleIntegration
    /\ IdleChunker
    /\ IdleImaging
    /\ IdleMain
    /\ IdleKeyParse
    /\ IdleMerge
    /\ IdleRetry
    /\ ro_readable \in BOOLEAN
    /\ IF ro_readable
       THEN \E n \in 0..MaxPages : \E bl \in [1..n -> BlockLists] : ro_pages = Pages(n, bl)
       ELSE ro_pages = <<>>
    /\ ro_i = 0
    /\ ro_text = <<>>
    /\ ro_pc = "open"

\* open() / json.load() of the raw extraction raise: return None
ReorderUnreadable ==
    /\ ro_pc = "open"
    /\ ~ro_readable
    /\ ro_pc' = "none"
    /\ UNCHANGED <<integ, fmt, chunker, imaging, mainv, keyparse, merge, retry, ro_readable, ro_pages, ro_i, ro_text>>

ReorderOpen ==
    /\ ro_pc = "open"
    /\ ro_readable
    /\ ro_pc' = "loop"
    /\ ro_i' = 1
    /\ UNCHANGED <<integ, fmt, chunker, imaging, mainv, keyparse, merge, retry, ro_readable, ro_pages, ro_text>>

\* one pass of the loop over all_pages_data, for a page without blocks
ReorderSkipPage ==
    /\ ro_pc = "loop"
    /\ ro_i <= Len(ro_pages)
    /\ ro_pages[ro_i].text_blocks = <<>>
    /\ ro_i' = ro_i + 1
    /\ UNCHANGED <<integ, fmt, chunker, imaging, mainv, keyparse, merge, retry, ro_readable, ro_pages, ro_text, ro_pc>>

\* one pass of the loop, for a page with blocks
ReorderPage ==
    /\ ro_pc = "loop"
    /\ ro_i <= Len(ro_pages)
    /\ ro_pages[ro_i].text_blocks # <<>>
    /\ ro_text' = ro_text \o PageLines(ro_pages[ro_i])
    /\ ro_i' = ro_i + 1
    /\ UNCHANGED <<integ, fmt, chunker, imaging, mainv, keyparse, merge, retry, ro_readable, ro_pages, ro_pc>>

\* the loop is over: step2_reordered_text.txt is written
ReorderWrite ==
    /\ ro_pc = "loop"
    /\ ro_i > Len(ro_pages)
    /\ ro_pc' = "written"
    /\ UNCHANGED <<integ, fmt, chunker, imaging, mainv, keyparse, merge, retry, ro_readable, ro_pages, ro_i, ro_text>>

NextReorder ==
    \/ ReorderUnreadable
    \/ ReorderOpen
    \/ ReorderSkipPage
    \/ ReorderPage
    \/ ReorderWrite

SpecReorder == InitReorder /\ [][NextReorder]_vars

\* ---------------------------- step 3b: chunk_consecutive_questions
\* A text is a sequence of tokens: one-character strings, and one token for
\* each literal of the patterns that is longer than one character.
\* "次の文を読み、" and " の問いに答えよ。", the head and tail of the trigger
TrigHead == "tsugi no bun wo yomi,"
TrigTail == " no toi ni kotaeyo."
\* "、" and "～", the two separators start_pattern accepts
Comma == "ideographic comma"
Tilde == "wave dash"
\* "　", the ideographic space that follows a question number
IdSpace == "ideographic space"
\* "--- Page " and " ---", the head and tail of a page marker
MarkHead == "--- Page "
MarkTail == " ---"
NL == "\n"

\* most pieces a reordered text is put together from
MaxPieces == 5

\* "次の文を読み、{n}{sep}{m} の問いに答えよ。"
Trigger(n, sep, m) == <<TrigHead>> \o Digits(n) \o <<sep>> \o Digits(m) \o <<TrigTail>>

\* the pieces of a reordered text: a trigger for questions 1 to 2, one whose
\* numbers run backwards, a newline, a page marker, a letter, the digit 3
\* and the ideographic space
PiecePool ==
    {Trigger(1, Tilde, 2), Trigger(2, Comma, 1), <<NL>>,
     <<MarkHead, "2", MarkTail, NL>>, <<"x">>, <<"3">>, <<IdSpace>>}

RECURSIVE Concat(_)
Concat(pieces) == IF pieces = <<>> THEN <<>> ELSE pieces[1] \o Concat(Tail(pieces))

\* s[i:] in Python, for a 1-based i
From(s, i) == SubSeq(s, i, Len(s))

\* re.sub(r'^\d+\n', '', text, flags=re.MULTILINE), scanning from index i
RECURSIVE RemoveDigitLines(_, _)
RemoveDigitLines(text, i) ==
    IF i > Len(text) THEN <<>>
    ELSE LET d == DigitSpan(From(text, i))
         IN  IF /\ (i = 1 \/ text[i - 1] = NL)
                /\ d > 0
                /\ i + d <= Len(text)
                /\ text[i + d] = NL
             THEN RemoveDigitLines(text, i + d + 1)
             ELSE <<text[i]>> \o RemoveDigitLines(text, i + 1)

\* length of the longest prefix of s matching \n*
RECURSIVE NewlineSpan(_)
NewlineSpan(s) == IF s = <<>> \/ s[1] # NL THEN 0 ELSE 1 + NewlineSpan(Tail(s))

\* re.sub(r'\n{3,}', '\n\n', text)
RECURSIVE NormalizeNewlines(_)
NormalizeNewlines(text) ==
    IF text = <<>> THEN <<>>
    ELSE LET n == NewlineSpan(text)
         IN  IF n >= 3 THEN <<NL, NL>> \o NormalizeNewlines(From(text, n + 1))
             ELSE <<text[1]>> \o NormalizeNewlines(Tail(text))

\* lines 29-41; the literals of the other substitutions are not tokens of
\* the texts, so those substitutions leave the text alone
Preprocess(full_text) == NormalizeNewlines(RemoveDigitLines(full_text, 1))

\* start_pattern.match at index i: <<>> or <<the match>>
TriggerMatchAt(text, i) ==
    IF i > Len(text) \/ text[i] # TrigHead THEN <<>>
    ELSE LET d1 == DigitSpan(From(text, i + 1))
             j  == i + 1 + d1
         IN  IF d1 = 0 \/ j > Len(text) \/ text[j] \notin {Comma, Tilde} THEN <<>>
             ELSE LET d2 == DigitSpan(From(text, j + 1))
                      k  == j + 1 + d2
                  IN  IF d2 = 0 \/ k > Len(text) \/ text[k] # TrigTail THEN <<>>
                      ELSE <<[start  |-> i,
                              group2 |-> SubSeq(text, i + 1, j - 1),
                              group3 |-> SubSeq(text, j + 1, k - 1),
                              stop   |-> k + 1]>>

\* list(start_pattern.finditer(text)), scanning from index i
RECURSIVE FindTriggers(_, _)
FindTriggers(text, i) ==
    IF i > Len(text) THEN <<>>
    ELSE LET m == TriggerMatchAt(text, i)
         IN  IF m = <<>> THEN FindTriggers(text, i + 1)
             ELSE m \o FindTriggers(text, m[1].stop)

\* length of the match of r'--- Page \d+ ---\n' at the head of s, 0 for none
MarkerSpan(s) ==
    IF s = <<>> \/ s[1] # MarkHead THEN 0
    ELSE LET d == DigitSpan(Tail(s))
         IN  IF d > 0 /\ d + 3 <= Len(s) /\ s[d + 2] = MarkTail /\ s[d + 3] = NL
             THEN d + 3 ELSE 0

\* the pattern without its page-marker alternative
NextQuestionAtNewlineOnly(s, number) ==
    /\ Len(s) >= 2 + Len(number)
    /\ SubSeq(s, 1, 1 + Len(number) + 1) = <<NL>> \o number \o <<IdSpace>>

\* next_question_pattern matches at the head of s
NextQuestionAt(s, number) ==
    LET lead == IF MarkerSpan(s) > 0 THEN MarkerSpan(s)
                ELSE IF s # <<>> /\ s[1] = NL THEN 1 ELSE 0
        want == number \o <<IdSpace>>
    IN  /\ lead > 0
        /\ Len(s) >= lead + Len(want)
        /\ SubSeq(s, lead + 1, lead + Len(want)) = want

\* next_question_pattern.search(block): the start of the leftmost match, 0 for None
RECURSIVE NextQuestionSearch(_, _, _)
NextQuestionSearch(block, number, i) ==
    IF i > Len(block) THEN 0
    ELSE IF NextQuestionAt(From(block, i), number) THEN i
    ELSE NextQuestionSearch(block, number, i + 1)

\* re.sub(r'--- Page \d+ ---\n', '', s)
RECURSIVE RemoveMarkers(_)
RemoveMarkers(s) ==
    IF s = <<>> THEN <<>>
    ELSE IF MarkerSpan(s) > 0 THEN RemoveMarkers(From(s, MarkerSpan(s) + 1))
    ELSE <<s[1]>> \o RemoveMarkers(Tail(s))

\* str.isspace for one token
IsSpace(c) == c \in {NL, IdSpace}

\* s.strip()
RECURSIVE Strip(_)
Strip(s) ==
    IF s = <<>> THEN <<>>
    ELSE IF IsSpace(s[1]) THEN Strip(Tail(s))
    ELSE IF IsSpace(s[Len(s)]) THEN Strip(SubSeq(s, 1, Len(s) - 1))
    ELSE s

\* list(range(lo, hi + 1))
RangeList(lo, hi) == [k \in 1..(IF hi >= lo THEN hi - lo + 1 ELSE 0) |-> lo + k - 1]

\* lines 58-95: the chunk made for the i-th match
ChunkOf(text_content, matches, i) ==
    LET start_pos   == matches[i].start
        start_q_num == IntOf(matches[i].group2)
        end_q_num   == IntOf(matches[i].group3)
        end_pos     == IF i + 1 <= Len(matches) THEN matches[i + 1].start
                       ELSE Len(text_content) + 1
        current_block_text == SubSeq(text_content, start_pos, end_pos - 1)
        next_q_match == NextQuestionSearch(current_block_text, Digits(end_q_num + 1), 1)
        final_chunk_text == IF next_q_match > 0
                            THEN SubSeq(current_block_text, 1, next_q_match - 1)
                            ELSE current_block_text
    IN  [source_pdf       |-> PdfStem \o <<".", "p", "d", "f">>,
         type             |-> "consecutive",
         question_numbers |-> RangeList(start_q_num, end_q_num),
         text             |-> Strip(RemoveMarkers(final_chunk_text))]

\* chunk_consecutive_questions is run on a reordered text of up to MaxPieces
\* pieces, or without its input file
InitChunker ==
    /\ IdleIntegration
    /\ IdleReorder
    /\ IdleImaging
    /\ IdleMain
    /\ IdleKeyParse
    /\ IdleMerge
    /\ IdleRetry
    /\ ck_exists \in BOOLEAN
    /\ IF ck_exists
       THEN \E n \in 0..MaxPieces : \E pieces \in [1..n -> PiecePool] : ck_full = Concat(pieces)
       ELSE ck_full = <<>>
    /\ ck_text = <<>>
    /\ ck_matches = <<>>
    /\ ck_i = 0
    /\ ck_chunks = <<>>
    /\ ck_out = NoFile
    /\ ck_pc = "read"

\* lines 17-25: the input file is missing, an empty list is written
ChunkerMissing ==
    /\ ck_pc = "read"
    /\ ~ck_exists
    /\ ck_out' = File(<<>>)
    /\ ck_pc' = "written"
    /\ UNCHANGED <<integ, fmt, reorder, imaging, mainv, keyparse, merge, retry, ck_exists, ck_full, ck_text, ck_matches, ck_i, ck_chunks>>

\* lines 27-55: pre-processing and trigger search; without a trigger an
\* empty list is written
ChunkerScan ==
    /\ ck_pc = "read"
    /\ ck_exists
    /\ ck_text' = Preprocess(ck_full)
    /\ ck_matches' = FindTriggers(ck_text', 1)
    /\ IF ck_matches' = <<>>
       THEN ck_out' = File(<<>>) /\ ck_pc' = "written" /\ ck_i' = ck_i
       ELSE ck_out' = ck_out /\ ck_pc' = "loop" /\ ck_i' = 1
    /\ UNCHANGED <<integ, fmt, reorder, imaging, mainv, keyparse, merge, retry, ck_exists, ck_full, ck_chunks>>

\* lines 57-97: one pass of the loop over the matches
ChunkerSpan ==
    /\ ck_pc = "loop"
    /\ ck_i <= Len(ck_matches)
    /\ ck_chunks' = Append(ck_chunks, ChunkOf(ck_text, ck_matches, ck_i))
    /\ ck_i' = ck_i + 1
    /\ UNCHANGED <<integ, fmt, reorder, imaging, mainv, keyparse, merge, retry, ck_exists, ck_full, ck_text, ck_matches, ck_out, ck_pc>>

\* lines 99-103: the chunks are written
ChunkerWrite ==
    /\ ck_pc = "loop"
    /\ ck_i > Len(ck_matches)
    /\ ck_out' = File(ck_chunks)
    /\ ck_pc' = "written"
    /\ UNCHANGED <<integ, fmt, reorder, imaging, mainv, keyparse, merge, retry, ck_exists, ck_full, ck_text, ck_matches, ck_i, ck_chunks>>

NextChunker ==
    \/ ChunkerMissing
    \/ ChunkerScan
    \/ ChunkerSpan
    \/ ChunkerWrite

SpecChunker == InitChunker /\ [][NextChunker]_vars

\* -------------------------------- steps 4c and 4d: the image mappers
\* most images in one raw extraction, and the number of its pages
MaxImages == 3
ImagePages == 2

\* "問題", and the tokens of the captions around it
Mondai == "mondai"
FullOpen == "fullwidth left parenthesis"
FullClose == "fullwidth right parenthesis"
WaveDash == "wave dash U+301C"

\* "(A 問題1)": the caption of an image of one question
Caption(block, n) == <<"(", block, " ", Mondai>> \o Digits(n) \o <<")">>

\* "(問題1〜3)": the caption of an image of a consecutive block
RangeCaption(lo, hi) == <<"(", Mondai>> \o Digits(lo) \o <<WaveDash>> \o Digits(hi) \o <<")">>

\* an image as extract_raw_data writes it
RawImage(path, caption, y0) ==
    [image_path |-> path, associated_text |-> caption, bbox |-> <<0, y0, 1, y0 + 1>>]

\* the images of the raw extractions: two of question A-1, the first of them
\* also one of the two of block 1-3 (the lower path comes later in either
\* pair), one of the range 1-2, one with a caption that names no question
\* and one without caption
ImagePool ==
    {RawImage(<<"c">>, RangeCaption(1, 3), 0),
     RawImage(<<"b">>, Caption("A", 1) \o RangeCaption(1, 3), 1),
     RawImage(<<"a">>, Caption("A", 1), 2),
     RawImage(<<"f">>, RangeCaption(1, 2), 0),
     RawImage(<<"d">>, <<"x">>, 0), RawImage(<<"e">>, <<>>, 0)}

\* the images that stand on page p, in their order
RECURSIVE ImagesOn(_, _, _)
ImagesOn(imgs, pg, p) ==
    IF imgs = <<>> THEN <<>>
    ELSE (IF pg[1] = p THEN <<imgs[1]>> ELSE <<>>) \o ImagesOn(Tail(imgs), Tail(pg), p)

\* the raw extraction with the images imgs, imgs[i] on page pg[i]
RawPages(imgs, pg) ==
    [p \in 1..ImagePages |-> [page_number |-> p, images |-> ImagesOn(imgs, pg, p)]]

\* what chunk_consecutive_questions has left for step 4d
ChunkFiles ==
    {NoFile, File(<<Chunk(1, 3)>>), File(<<Chunk(2, 2), Chunk(4, 5), Chunk(1, 3)>>)}

\* length of the longest prefix of s matching [\s　]*
RECURSIVE SpaceSpan(_)
SpaceSpan(s) == IF s = <<>> \/ s[1] \notin {" ", NL, IdSpace} THEN 0 ELSE 1 + SpaceSpan(Tail(s))

\* the pattern of step 4c matched at index i: <<>> or <<the match>>
CaptionMatchAt(text, i) ==
    IF i + 1 > Len(text) \/ text[i] \notin {"(", FullOpen} \/ ~IsUpper(text[i + 1]) THEN <<>>
    ELSE LET a  == i + 2 + SpaceSpan(From(text, i + 2))
         IN  IF a > Len(text) \/ text[a] # Mondai THEN <<>>
             ELSE LET b == a + 1 + SpaceSpan(From(text, a + 1))
                      d == DigitSpan(From(text, b))
                      c == b + d + SpaceSpan(From(text, b + d))
                  IN  IF d = 0 \/ c > Len(text) \/ text[c] \notin {")", FullClose} THEN <<>>
                      ELSE <<[block |-> text[i + 1], number |-> SubSeq(text, b, b + d - 1),
                              stop |-> c + 1]>>

\* pattern.findall(associated_text), scanning from index i
RECURSIVE CaptionFindAll(_, _)
CaptionFindAll(text, i) ==
    IF i > Len(text) THEN <<>>
    ELSE LET m == CaptionMatchAt(text, i)
         IN  IF m = <<>> THEN CaptionFindAll(text, i + 1)
             ELSE m \o CaptionFindAll(text, m[1].stop)

\* img.get("bbox", [0, 0, 0, 0])[1]
ImageTop(img) == IF Has(img, "bbox") THEN img.bbox[2] ELSE 0

RECURSIVE InsertByTop(_, _)
InsertByTop(sorted, img) ==
    IF sorted = <<>> THEN <<img>>
    ELSE IF ImageTop(img) < ImageTop(sorted[Len(sorted)])
         THEN Append(InsertByTop(SubSeq(sorted, 1, Len(sorted) - 1), img), sorted[Len(sorted)])
         ELSE Append(sorted, img)

\* images_on_page.sort(key=lambda img: img.get("bbox", [0, 0, 0, 0])[1])
RECURSIVE SortByTop(_)
SortByTop(images) ==
    IF images = <<>> THEN <<>>
    ELSE InsertByTop(SortByTop(SubSeq(images, 1, Len(images) - 1)), images[Len(images)])

\* image_info.get("associated_text", ""), image_info.get("image_path")
AssociatedText(img) == IF Has(img, "associated_text") THEN img.associated_text ELSE <<>>
ImagePath(img) == IF Has(img, "image_path") THEN img.image_path ELSE NoStr

\* line 45: the image is passed over without a word
PassedOver(img) == AssociatedText(img) = <<>> \/ ~Has(img, "image_path") \/ img.image_path = <<>>

\* d with the items of key k replaced by value v, or with the item appended
DictPut(d, k, v) ==
    IF k \in DictKeys(d)
    THEN [i \in 1..Len(d) |-> IF d[i].key = k THEN Item(k, v) ELSE d[i]]
    ELSE Append(d, Item(k, v))

\* lines 54-62: the entry is appended to the list have of join_key unless
\* the list holds its path already
AddEntry(st, join_key, have, entry) ==
    IF \E k \in 1..Len(have) : have[k].image_path = entry.image_path
    THEN [st EXCEPT !.mapping = DictPut(@, join_key, have)]
    ELSE [st EXCEPT !.mapping = DictPut(@, join_key, Append(have, entry))]

\* all_image_mappings[join_key], created empty when missing
ListOf(mapping, join_key) ==
    IF join_key \in DictKeys(mapping) THEN DictGet(mapping, join_key) ELSE <<>>

\* lines 50-64: the image is filed under the key of its last match, or warned of
FileImage(st, img, page_num, matches) ==
    IF matches = <<>>
    THEN [st EXCEPT !.warnings = Append(@, img.associated_text)]
    ELSE \* f"{question_block}-{question_number}" of matches[-1]
         AddEntry(st,
                  <<matches[Len(matches)].block, "-">> \o matches[Len(matches)].number,
                  ListOf(st.mapping, <<matches[Len(matches)].block, "-">> \o matches[Len(matches)].number),
                  [image_path  |-> img.image_path,
                   source_page |-> page_num,
                   source_text |-> img.associated_text])

\* lines 41-64 for one image: the mapping and the warnings after it
MapOneImage(st, img, page_num) ==
    IF PassedOver(img) THEN st
    ELSE FileImage(st, img, page_num, CaptionFindAll(img.associated_text, 1))

RECURSIVE MapImages(_, _, _)
MapImages(st, images, page_num) ==
    IF images = <<>> THEN st
    ELSE MapImages(MapOneImage(st, images[1], page_num), Tail(images), page_num)

\* lines 32-64: the loop over the pages
RECURSIVE MapPages(_, _)
MapPages(st, pages) ==
    IF pages = <<>> THEN st
    ELSE MapPages(MapImages(st, SortByTop(pages[1].images), pages[1].page_number), Tail(pages))

RECURSIVE InsertByPath(_, _)
InsertByPath(sorted, img) ==
    IF sorted = <<>> THEN <<img>>
    ELSE IF StrLess(img.image_path, sorted[Len(sorted)].image_path)
         THEN Append(InsertByPath(SubSeq(sorted, 1, Len(sorted) - 1), img), sorted[Len(sorted)])
         ELSE Append(sorted, img)

\* sorted(images, key=lambda x: x['image_path'])
RECURSIVE SortByPath(_)
SortByPath(images) ==
    IF images = <<>> THEN <<>>
    ELSE InsertByPath(SortByPath(SubSeq(images, 1, Len(images) - 1)), images[Len(images)])

\* chr(ord('A') + i) for the i-th image of a key, i counted from 1
ImageIds == <<"A", "B", "C", "D", "E", "F", "G", "H">>

\* the image ids given in the order the images came in
AssignIdsUnsorted(images) == [i \in 1..Len(images) |-> Put(images[i], "image_id", ImageIds[i])]

\* lines 69-74 and 77-79: sort by path, then number the images A, B, C, ...
AssignIds(images) ==
    LET image_list == SortByPath(images)
    IN  [i \in 1..Len(image_list) |-> Put(image_list[i], "image_id", ImageIds[i])]

\* lines 67-74: every list of the mapping is sorted and numbered
NumberImages(st) ==
    [mapping  |-> [i \in 1..Len(st.mapping) |->
                      Item(st.mapping[i].key, AssignIds(st.mapping[i].val))],
     warnings |-> st.warnings]

\* map_images_to_questions: what it writes and what it warns of
map_images_to_questions(raw_data_per_page) ==
    NumberImages(MapPages([mapping |-> <<>>, warnings |-> <<>>], raw_data_per_page))

\* pattern.search(associated_text) of step 4d at index i: <<>> or <<the match>>
RangeSeps == {WaveDash, Comma, ",", " ", NL, IdSpace}

RECURSIVE SepSpan(_)
SepSpan(s) == IF s = <<>> \/ s[1] \notin RangeSeps THEN 0 ELSE 1 + SepSpan(Tail(s))

RangeMatchAt(text, i) ==
    IF i > Len(text) \/ text[i] # Mondai THEN <<>>
    ELSE LET a  == IF i + 1 <= Len(text) /\ text[i + 1] \in {" ", NL, IdSpace} THEN i + 2 ELSE i + 1
             d1 == DigitSpan(From(text, a))
             sp == SepSpan(From(text, a + d1))
             d2 == DigitSpan(From(text, a + d1 + sp))
         IN  IF d1 = 0 \/ sp = 0 \/ d2 = 0 THEN <<>>
             ELSE <<[group1 |-> SubSeq(text, a, a + d1 - 1),
                     group2 |-> SubSeq(text, a + d1 + sp, a + d1 + sp + d2 - 1)]>>

RECURSIVE RangeSearch(_, _)
RangeSearch(text, i) ==
    IF i > Len(text) THEN <<>>
    ELSE IF RangeMatchAt(text, i) # <<>> THEN RangeMatchAt(text, i)
    ELSE RangeSearch(text, i + 1)

\* lines 47-50: the images of all pages
RECURSIVE AllImages(_)
AllImages(raw_data) ==
    IF raw_data = <<>> THEN <<>> ELSE raw_data[1].images \o AllImages(Tail(raw_data))

\* raw_data.index(page) + 1 for the page the loop of lines 48-50 ended on
LeakedPageIndex(raw_data) ==
    SetMin({i \in 1..Len(raw_data) : raw_data[i] = raw_data[Len(raw_data)]})

\* lines 62-73 with the test of line 68 reduced to the first number
RECURSIVE MatchedImagesStartOnly(_, _, _, _)
MatchedImagesStartOnly(all_images, start_q, end_q, raw_data) ==
    IF all_images = <<>> THEN <<>>
    ELSE LET image == all_images[1]
             match == RangeSearch(AssociatedText(image), 1)
             rest  == MatchedImagesStartOnly(Tail(all_images), start_q, end_q, raw_data)
         IN  IF match # <<>> /\ IntOf(match[1].group1) = start_q
             THEN <<[image_path  |-> ImagePath(image),
                     source_page |-> IF Has(image, "source_page") THEN image.source_page
                                     ELSE LeakedPageIndex(raw_data),
                     source_text |-> AssociatedText(image)]>> \o rest
             ELSE rest

\* lines 62-73: the images of all_images whose caption carries the range
RECURSIVE MatchedImages(_, _, _, _)
MatchedImages(all_images, start_q, end_q, raw_data) ==
    IF all_images = <<>> THEN <<>>
    ELSE LET image == all_images[1]
             match == RangeSearch(AssociatedText(image), 1)
             rest  == MatchedImages(Tail(all_images), start_q, end_q, raw_data)
         IN  IF match # <<>> /\ IntOf(match[1].group1) = start_q /\ IntOf(match[1].group2) = end_q
             THEN <<[image_path  |-> ImagePath(image),
                     source_page |-> IF Has(image, "source_page") THEN image.source_page
                                     ELSE LeakedPageIndex(raw_data),
                     source_text |-> AssociatedText(image)]>> \o rest
             ELSE rest

\* create_consecutive_join_key(pdf_stem, start_q, end_q)
create_consecutive_join_key(pdf_stem, start_q, end_q) ==
    RangeJoinKey(BlockChar(pdf_stem), start_q, end_q)

\* lines 52-82: the loop over the chunks
RECURSIVE MapChunks(_, _, _)
MapChunks(image_mapping, chunks, raw_data) ==
    IF chunks = <<>> THEN image_mapping
    ELSE LET q_numbers == IF Has(chunks[1], "question_numbers")
                          THEN chunks[1].question_numbers ELSE <<>>
         IN  IF Len(q_numbers) < 2 THEN MapChunks(image_mapping, Tail(chunks), raw_data)
             ELSE LET start_q  == q_numbers[1]
                      end_q    == q_numbers[Len(q_numbers)]
                      join_key == create_consecutive_join_key(PdfStem, start_q, end_q)
                      matched_images == MatchedImages(AllImages(raw_data), start_q, end_q, raw_data)
                  IN  MapChunks(IF matched_images = <<>> THEN image_mapping
                                ELSE DictPut(image_mapping, join_key, AssignIds(matched_images)),
                                Tail(chunks), raw_data)

\* map_consecutive_images: the mapping it writes
map_consecutive_images(raw_data, consecutive_chunks) == MapChunks(<<>>, consecutive_chunks, raw_data)

\* the two mappers are run on the raw extraction of one image PDF
InitImaging ==
    /\ IdleIntegration
    /\ IdleReorder
    /\ IdleChunker
    /\ IdleMain
    /\ IdleKeyParse
    /\ IdleMerge
    /\ IdleRetry
    /\ im_readable \in BOOLEAN
    /\ IF im_readable
       THEN \E n \in 0..MaxImages : \E imgs \in [1..n -> ImagePool] :
                \E pg \in [1..n -> 1..ImagePages] : im_raw = RawPages(imgs, pg)
       ELSE im_raw = <<>>
    /\ im_chunks \in ChunkFiles
    /\ im_warnings = <<>>
    /\ im_out4c = NoFile
    /\ im_out4d = NoFile
    /\ im_pc = "4c"

\* lines 18-24 of step 4c: the raw extraction cannot be read, None is returned
Map4cUnreadable ==
    /\ im_pc = "4c"
    /\ ~im_readable
    /\ im_pc' = "4d"
    /\ UNCHANGED <<integ, fmt, reorder, chunker, mainv, keyparse, merge, retry, im_readable, im_raw, im_chunks,
                   im_warnings, im_out4c, im_out4d>>

\* map_images_to_questions on a readable raw extraction
Map4c ==
    /\ im_pc = "4c"
    /\ im_readable
    /\ \E done \in {map_images_to_questions(im_raw)} :
           /\ im_out4c' = File(done.mapping)
           /\ im_warnings' = done.warnings
    /\ im_pc' = "4d"
    /\ UNCHANGED <<integ, fmt, reorder, chunker, mainv, keyparse, merge, retry, im_readable, im_raw, im_chunks, im_out4d>>

\* lines 32-39 of step 4d: an input cannot be read, nothing is written
Map4dUnreadable ==
    /\ im_pc = "4d"
    /\ ~im_readable \/ ~im_chunks.exists
    /\ im_pc' = "end"
    /\ UNCHANGED <<integ, fmt, reorder, chunker, mainv, keyparse, merge, retry, im_readable, im_raw, im_chunks,
                   im_warnings, im_out4c, im_out4d>>

\* map_consecutive_images on readable inputs
Map4d ==
    /\ im_pc = "4d"
    /\ im_readable /\ im_chunks.exists
    /\ im_out4d' = File(map_consecutive_images(im_raw, im_chunks.data))
    /\ im_pc' = "end"
    /\ UNCHANGED <<integ, fmt, reorder, chunker, mainv, keyparse, merge, retry, im_readable, im_raw, im_chunks,
                   im_warnings, im_out4c>>

NextImaging ==
    \/ Map4cUnreadable
    \/ Map4c
    \/ Map4dUnreadable
    \/ Map4d

SpecImaging == InitImaging /\ [][NextImaging]_vars

\* -------------------------------------------- main(): skipping of stages
\* how many times main() is run on the same intermediate directory
MaxMainRuns == 2

\* the steps of one run for one PDF, then of the exam's post-processing, in
\* the order main() goes through them
MainStages == <<"1", "4c", "4d", "2", "3b", "5b", "5.5", "6">>

\* executable_steps for the file type (all steps are among --steps), and the
\* post-processing steps, which run for the exam whatever the file type
Executable(file_type) ==
    {"5b", "5.5", "6"} \cup (IF file_type = "image" THEN {"1", "4c", "4d"} ELSE {"1", "2", "3b"})

MainStageAfter(stage) ==
    LET i == CHOOSE j \in 1..Len(MainStages) : MainStages[j] = stage
    IN  IF i < Len(MainStages) THEN MainStages[i + 1] ELSE "end"

\* the artifacts whose existence the run_step wrapper of a step tests: for
\* steps 2, 4c and 4d the path is step_outputs.get(1) or the default path
\* of step1_raw_extraction.json, which name the same file
Needs(stage) ==
    CASE stage = "2"   -> {"step1"}
      [] stage = "4c"  -> {"step1", "step4"}
      [] stage = "4d"  -> {"step1", "step3b"}
      [] stage = "3b"  -> {"step2"}
      [] stage = "5b"  -> {"step4"}
      [] stage = "5.5" -> {"step5b"}
      [] stage = "6"   -> {"step5b"}
      [] OTHER         -> {}

\* the artifact a step writes when it succeeds
Writes(stage) ==
    CASE stage = "1"   -> "step1"
      [] stage = "2"   -> "step2"
      [] stage = "3b"  -> "step3b"
      [] stage = "4c"  -> "step4c"
      [] stage = "4d"  -> "step4d"
      [] stage = "5b"  -> "step5b"
      [] stage = "5.5" -> "step5_5"
      [] OTHER         -> "final"

\* main() is run on an intermediate directory that holds at most the
\* artifacts of the exam's question PDF
InitMain ==
    /\ IdleIntegration
    /\ IdleReorder
    /\ IdleChunker
    /\ IdleImaging
    /\ IdleKeyParse
    /\ IdleMerge
    /\ IdleRetry
    /\ mn_type \in {"text", "image"}
    /\ mn_disk \in SUBSET {"step4", "step3b"}
    /\ mn_outputs = {}
    /\ mn_invoked = {}
    /\ mn_failed = {}
    /\ mn_pc = "1"
    /\ mn_runs = 0

\* a step that is not among the executable steps of the PDF is passed over
MainNotExecutable ==
    /\ mn_pc \in Range(MainStages)
    /\ mn_pc \notin Executable(mn_type)
    /\ mn_pc' = MainStageAfter(mn_pc)
    /\ UNCHANGED <<integ, fmt, reorder, chunker, imaging, keyparse, merge, retry, mn_type, mn_disk, mn_outputs,
                   mn_invoked, mn_failed, mn_runs>>

\* run_step1: extract_raw_data writes the raw extraction, or cannot open the
\* PDF and returns None
MainStep1 ==
    /\ mn_pc = "1"
    /\ mn_pc \in Executable(mn_type)
    /\ \E ok \in BOOLEAN :
          /\ mn_disk' = IF ok THEN mn_disk \cup {"step1"} ELSE mn_disk
          /\ mn_outputs' = IF ok THEN mn_outputs \cup {"1"} ELSE mn_outputs
          /\ mn_failed' = IF ok THEN mn_failed ELSE mn_failed \cup {"1"}
    /\ mn_invoked' = mn_invoked \cup {"1"}
    /\ mn_pc' = MainStageAfter(mn_pc)
    /\ UNCHANGED <<integ, fmt, reorder, chunker, imaging, keyparse, merge, retry, mn_type, mn_runs>>

\* a run_step wrapper finds an input file missing: "Skipped", None is returned
MainSkipped ==
    /\ mn_pc \in Range(MainStages) \ {"1"}
    /\ mn_pc \in Executable(mn_type)
    /\ ~(Needs(mn_pc) \subseteq mn_disk)
    /\ mn_failed' = mn_failed \cup {mn_pc}
    /\ mn_pc' = MainStageAfter(mn_pc)
    /\ UNCHANGED <<integ, fmt, reorder, chunker, imaging, keyparse, merge, retry, mn_type, mn_disk, mn_outputs,
                   mn_invoked, mn_runs>>

\* a run_step wrapper finds its input files and calls the stage, which
\* writes its artifact or returns None
MainStage ==
    /\ mn_pc \in Range(MainStages) \ {"1"}
    /\ mn_pc \in Executable(mn_type)
    /\ Needs(mn_pc) \subseteq mn_disk
    /\ \E ok \in BOOLEAN :
          /\ mn_disk' = IF ok THEN mn_disk \cup {Writes(mn_pc)} ELSE mn_disk
          /\ mn_outputs' = IF ok THEN mn_outputs \cup {mn_pc} ELSE mn_outputs
          /\ mn_failed' = IF ok THEN mn_failed ELSE mn_failed \cup {mn_pc}
    /\ mn_invoked' = mn_invoked \cup {mn_pc}
    /\ mn_pc' = MainStageAfter(mn_pc)
    /\ UNCHANGED <<integ, fmt, reorder, chunker, imaging, keyparse, merge, retry, mn_type, mn_runs>>

\* main() is started again on the same intermediate directory
MainRerun ==
    /\ mn_pc = "end"
    /\ mn_runs + 1 < MaxMainRuns
    /\ mn_runs' = mn_runs + 1
    /\ mn_outputs' = {}
    /\ mn_invoked' = {}
    /\ mn_failed' = {}
    /\ mn_pc' = "1"
    /\ UNCHANGED <<integ, fmt, reorder, chunker, imaging, keyparse, merge, retry, mn_type, mn_disk>>

NextMain ==
    \/ MainNotExecutable
    \/ MainStep1
    \/ MainSkipped
    \/ MainStage
    \/ MainRerun

SpecMain == InitMain /\ [][NextMain]_vars

\* --------------------------------------- step 5a: parse_answer_key
\* most pages in the raw extraction of an answer-key PDF
MaxKeyPages == 3

\* what one call of call_llm can give: None, a JSON object, or text that
\* json.loads rejects
Responses == {"none", "json", "garbage"}

\* parse_answer_key is run on the pages of an answer-key PDF; max_retries
\* (--retry-step5a) is MaxRetries
InitKeyParse ==
    /\ IdleIntegration
    /\ IdleReorder
    /\ IdleChunker
    /\ IdleImaging
    /\ IdleMain
    /\ IdleMerge
    /\ IdleRetry
    /\ \E n \in 0..MaxKeyPages : ka_pages \in [1..n -> BOOLEAN]
    /\ ka_i = 1
    /\ ka_attempt = 0
    /\ ka_answers = {}
    /\ ka_calls = 0
    /\ ka_waited = FALSE
    /\ ka_pc = "page"

\* lines 60-62: a page without text is passed over
KeySkipPage ==
    /\ ka_pc = "page"
    /\ ka_i <= Len(ka_pages)
    /\ ~ka_pages[ka_i]
    /\ ka_i' = ka_i + 1
    /\ UNCHANGED <<integ, fmt, reorder, chunker, imaging, mainv, merge, retry, ka_pages, ka_attempt,
                   ka_answers, ka_calls, ka_waited, ka_pc>>

\* lines 68-70 and 76-85: call_llm answers; the retry loop is left, the
\* answers are merged if they parse, and the loop goes to the next page
KeyCallAnswered ==
    /\ ka_pc = "page"
    /\ ka_i <= Len(ka_pages)
    /\ ka_pages[ka_i]
    /\ ka_attempt < MaxRetries
    /\ \E llm_response \in Responses \ {"none"} :
          ka_answers' = IF llm_response = "json" THEN ka_answers \cup {ka_i} ELSE ka_answers
    /\ ka_calls' = ka_calls + 1
    /\ ka_waited' = FALSE
    /\ ka_i' = ka_i + 1
    /\ ka_attempt' = 0
    /\ UNCHANGED <<integ, fmt, reorder, chunker, imaging, mainv, merge, retry, ka_pages, ka_pc>>

\* lines 68-71: call_llm returns None
KeyCallFailed ==
    /\ ka_pc = "page"
    /\ ka_i <= Len(ka_pages)
    /\ ka_pages[ka_i]
    /\ ka_attempt < MaxRetries
    /\ ka_calls' = ka_calls + 1
    /\ ka_waited' = FALSE
    /\ ka_pc' = "sleep"
    /\ UNCHANGED <<integ, fmt, reorder, chunker, imaging, mainv, merge, retry, ka_pages, ka_i, ka_attempt,
                   ka_answers>>

\* lines 72-77: time.sleep(rate_limit_wait) after a failed call, then the
\* next attempt, or the next page when the attempts are used up
KeySleep ==
    /\ ka_pc = "sleep"
    /\ ka_waited' = TRUE
    /\ IF ka_attempt + 1 < MaxRetries
       THEN ka_attempt' = ka_attempt + 1 /\ ka_i' = ka_i
       ELSE ka_attempt' = 0 /\ ka_i' = ka_i + 1
    /\ ka_pc' = "page"
    /\ UNCHANGED <<integ, fmt, reorder, chunker, imaging, mainv, merge, retry, ka_pages, ka_answers, ka_calls>>

\* lines 87-98: the table is written, or None is returned for an empty one
KeyFinish ==
    /\ ka_pc = "page"
    /\ ka_i > Len(ka_pages)
    /\ ka_pc' = IF ka_answers = {} THEN "none" ELSE "written"
    /\ UNCHANGED <<integ, fmt, reorder, chunker, imaging, mainv, merge, retry, ka_pages, ka_i, ka_attempt,
                   ka_answers, ka_calls, ka_waited>>

NextKeyParse ==
    \/ KeySkipPage
    \/ KeyCallAnswered
    \/ KeyCallFailed
    \/ KeySleep
    \/ KeyFinish

SpecKeyParse == InitKeyParse /\ [][NextKeyParse]_vars

\* ------------------- integrate_answers on any list of mapping files
\* the largest number of image-mapping files handed to integrate_answers
MaxMappingFiles == 3

\* what an image-mapping file of the exam can hold: the 4c mapping of one
\* PDF, the 4c mapping of another PDF of the exam, or a 4d mapping
MappingPool ==
    {<<Item(SingleJoinKey("C", 1), <<Image(<<"a">>, "A")>>)>>,
     <<Item(SingleJoinKey("C", 1), <<Image(<<"b">>, "A")>>),
       Item(SingleJoinKey("C", 5), <<Image(<<"d">>, "A"), Image(<<"e">>, "B")>>)>>,
     <<Item(RangeJoinKey("C", 2, 3), <<Image(<<"c">>, "A")>>)>>}

\* the step-4 file: two single questions
MergeSingles == <<Question(1, "C", 1), Question(2, "C", 5)>>

\* the step-4b file: one block of the questions 2 to 3
MergeBlocks ==
    <<RuleBasedJoinKey([case_presentation |-> [text |-> <<"x">>],
                        sub_questions     |-> <<[problem_number |-> 2], [problem_number |-> 3]>>],
                       Chunk(2, 3), PdfStem)>>

\* the step-4b file with a block whose case presentation carries the join
\* key of the block
MergeKeyedBlocks ==
    <<RuleBasedJoinKey([case_presentation |-> [text     |-> <<"x">>,
                                               join_key |-> RangeJoinKey("C", 2, 3)],
                        sub_questions     |-> <<[problem_number |-> 2], [problem_number |-> 3]>>],
                       Chunk(2, 3), PdfStem)>>

\* an answer table with keys of a single question, of a block and of a
\* sub-question
MergeAnswers ==
    <<Item(SingleJoinKey("C", 1), <<<<"B">>>>),
      Item(RangeJoinKey("C", 2, 3), <<<<"a">>>>),
      Item(SingleJoinKey("C", 2), <<<<"3">>>>)>>

\* integrate_answers is called with or without an answer key and with up to
\* MaxMappingFiles mapping files, each missing or readable
InitMerge ==
    /\ IdleIntegration
    /\ IdleReorder
    /\ IdleChunker
    /\ IdleImaging
    /\ IdleMain
    /\ IdleKeyParse
    /\ IdleRetry
    /\ mg_single \in {NoFile, File(MergeSingles)}
    /\ mg_consecutive \in {NoFile, File(MergeBlocks), File(MergeKeyedBlocks)}
    /\ mg_key \in {NoFile, File(MergeAnswers)}
    /\ \E n \in 0..MaxMappingFiles :
           mg_paths \in [1..n -> {NoFile} \cup {File(m) : m \in MappingPool}]
    /\ mg_i = 1
    /\ mg_mappings = <<>>
    /\ mg_out = NoFile
    /\ mg_pc = "load"

\* lines 79-119: no record is loaded, integrate_answers returns None
MergeAbort ==
    /\ mg_pc = "load"
    /\ mg_i = 1
    /\ AllProblems(mg_single, mg_consecutive) = <<>>
    /\ mg_pc' = "none"
    /\ UNCHANGED <<integ, fmt, reorder, chunker, imaging, mainv, keyparse, retry,
                   mg_single, mg_consecutive, mg_key, mg_paths, mg_i, mg_mappings, mg_out>>

\* lines 131-132: a mapping path that does not exist is passed over
MergeSkipFile ==
    /\ mg_pc = "load"
    /\ AllProblems(mg_single, mg_consecutive) # <<>>
    /\ mg_i <= Len(mg_paths)
    /\ ~mg_paths[mg_i].exists
    /\ mg_i' = mg_i + 1
    /\ UNCHANGED <<integ, fmt, reorder, chunker, imaging, mainv, keyparse, retry,
                   mg_single, mg_consecutive, mg_key, mg_paths, mg_mappings, mg_out, mg_pc>>

\* lines 133-140: the entries of one mapping file are merged
MergeLoadFile ==
    /\ mg_pc = "load"
    /\ AllProblems(mg_single, mg_consecutive) # <<>>
    /\ mg_i <= Len(mg_paths)
    /\ mg_paths[mg_i].exists
    /\ mg_mappings' = MergeMapping(mg_mappings, mg_paths[mg_i].data)
    /\ mg_i' = mg_i + 1
    /\ UNCHANGED <<integ, fmt, reorder, chunker, imaging, mainv, keyparse, retry,
                   mg_single, mg_consecutive, mg_key, mg_paths, mg_out, mg_pc>>

\* lines 144-180: every record is integrated, the list sorted and written
MergeIntegrate ==
    /\ mg_pc = "load"
    /\ AllProblems(mg_single, mg_consecutive) # <<>>
    /\ mg_i > Len(mg_paths)
    /\ \E all_problems \in {AllProblems(mg_single, mg_consecutive)} :
           mg_out' = File(SortProblems([i \in 1..Len(all_problems) |->
                              IntegrateProblem(all_problems[i], LoadList(mg_key), mg_mappings)]))
    /\ mg_pc' = "written"
    /\ UNCHANGED <<integ, fmt, reorder, chunker, imaging, mainv, keyparse, retry,
                   mg_single, mg_consecutive, mg_key, mg_paths, mg_i, mg_mappings>>

NextMerge ==
    \/ MergeAbort
    \/ MergeSkipFile
    \/ MergeLoadFile
    \/ MergeIntegrate

SpecMerge == InitMerge /\ [][NextMerge]_vars

\* ------------------------ the retry loops of steps 3, 4, 4b and 5a
\* most units (text chunks, batches, consecutive chunks, answer-key pages)
\* one step works through
MaxUnits == 2

\* the steps that call the language model once per unit, with retries
RetrySteps == {"3", "4", "4b", "5a"}

\* `for attempt in range(max_retries)` goes on after a closing <= in place of <
MayCallOnceMore(attempt_no) == attempt_no <= MaxRetries

\* `for attempt in range(max_retries)`: the loop body runs for this attempt
MayCall(attempt_no) == attempt_no < MaxRetries

\* the units of a step: every unit is sent to the language model, except
\* that step 5a passes over a page without text
WorkLists(step) ==
    UNION {[1..n -> IF step = "5a" THEN BOOLEAN ELSE {TRUE}] : n \in 0..MaxUnits}

InitRetry ==
    /\ IdleIntegration
    /\ IdleReorder
    /\ IdleChunker
    /\ IdleImaging
    /\ IdleMain
    /\ IdleKeyParse
    /\ IdleMerge
    /\ rt_step \in RetrySteps
    /\ rt_work \in WorkLists(rt_step)
    /\ rt_u = 1
    /\ rt_attempt = 0
    /\ rt_calls = [u \in 1..Len(rt_work) |-> 0]
    /\ rt_ok = [u \in 1..Len(rt_work) |-> FALSE]
    /\ rt_pc = "unit"

\* step 5a: a page without text is passed over
RetrySkipUnit ==
    /\ rt_pc = "unit"
    /\ rt_u <= Len(rt_work)
    /\ ~rt_work[rt_u]
    /\ rt_u' = rt_u + 1
    /\ UNCHANGED <<integ, fmt, reorder, chunker, imaging, mainv, keyparse, merge,
                   rt_step, rt_work, rt_attempt, rt_calls, rt_ok, rt_pc>>

\* a call that succeeds: `break` leaves the retry loop, the result is used
\* and the outer loop goes to the next unit
RetryCallSucceeded ==
    /\ rt_pc = "unit"
    /\ rt_u <= Len(rt_work)
    /\ rt_work[rt_u]
    /\ MayCall(rt_attempt)
    /\ rt_calls' = [rt_calls EXCEPT ![rt_u] = @ + 1]
    /\ rt_ok' = [rt_ok EXCEPT ![rt_u] = TRUE]
    /\ rt_u' = rt_u + 1
    /\ rt_attempt' = 0
    /\ UNCHANGED <<integ, fmt, reorder, chunker, imaging, mainv, keyparse, merge,
                   rt_step, rt_work, rt_pc>>

\* a call that fails (None is returned, or step 4b catches an exception):
\* the step sleeps and the retry loop goes to its next attempt
RetryCallFailed ==
    /\ rt_pc = "unit"
    /\ rt_u <= Len(rt_work)
    /\ rt_work[rt_u]
    /\ MayCall(rt_attempt)
    /\ rt_calls' = [rt_calls EXCEPT ![rt_u] = @ + 1]
    /\ rt_attempt' = rt_attempt + 1
    /\ UNCHANGED <<integ, fmt, reorder, chunker, imaging, mainv, keyparse, merge,
                   rt_step, rt_work, rt_u, rt_ok, rt_pc>>

\* the retry loop has run out: the unit is given up and the outer loop goes
\* to the next unit
RetryGiveUp ==
    /\ rt_pc = "unit"
    /\ rt_u <= Len(rt_work)
    /\ rt_work[rt_u]
    /\ ~MayCall(rt_attempt)
    /\ rt_u' = rt_u + 1
    /\ rt_attempt' = 0
    /\ UNCHANGED <<integ, fmt, reorder, chunker, imaging, mainv, keyparse, merge,
                   rt_step, rt_work, rt_calls, rt_ok, rt_pc>>

\* the outer loop is over: the step writes its artifact
RetryFinish ==
    /\ rt_pc = "unit"
    /\ rt_u > Len(rt_work)
    /\ rt_pc' = "done"
    /\ UNCHANGED <<integ, fmt, reorder, chunker, imaging, mainv, keyparse, merge,
                   rt_step, rt_work, rt_u, rt_attempt, rt_calls, rt_ok>>

NextRetry ==
    \/ RetrySkipUnit
    \/ RetryCallSucceeded
    \/ RetryCallFailed
    \/ RetryGiveUp
    \/ RetryFinish

SpecRetry == InitRetry /\ [][NextRetry]_vars

\* ================================================================ claims
\* the canonical record list on disk
Canonical == integrated_file.data

\* the records of the canonical list tagged "single" / "consecutive"
SingleRecords == {r \in Range(Canonical) : GetFormat(r) = "single"}

ConsecutiveRecords == {r \in Range(Canonical) : GetFormat(r) = "consecutive"}

\* the problem numbers carried by the sub-questions of one record
SubNumbers(r) ==
    {SubQuestions(r)[i].problem_number :
        i \in {j \in 1..Len(SubQuestions(r)) : Has(SubQuestions(r)[j], "problem_number")}}

\* the single questions the last call of integrate_answers was given
GivenSingles == Range(LoadList(last_inputs.single))

\* the input question q is a record of the canonical list (integration may
\* have added an answer and images to it)
Emitted(q) ==
    \E r \in SingleRecords :
        \A f \in DOMAIN q \ {"answer", "images"} : Has(r.problem, f) /\ r.problem[f] = q[f]

\* C1: no record emitted as "single" carries the problem number of a
\* sub-question of a consecutive record of the same canonical list.
C1_DedupInvariant ==
    integrated_file.exists =>
        \A s \in SingleRecords : \A c \in ConsecutiveRecords :
            Has(s.problem, "problem_number") => s.problem.problem_number \notin SubNumbers(c)

\* C1 witness: a single question with the number of a sub-question was given
\* and is gone, while another single question was emitted.
C1_Witness ==
    /\ ret5b = "path"
    /\ SingleRecords # {}
    /\ \E q \in GivenSingles : \E c \in ConsecutiveRecords :
          HasNumber(q) /\ q.problem_number \in SubNumbers(c) /\ ~Emitted(q)

\* C2 (as claimed): every single question given without a problem number
\* (field missing or null) is a record of the canonical list.
C2_NoNumberNeverDiscarded ==
    ret5b = "path" => \A q \in GivenSingles : ~HasNumber(q) => Emitted(q)

\* the dict is the numeric form {value, unit: null}
IsNumericForm(d) == DOMAIN d = {"value", "unit"} /\ d.unit = None

\* C3 (as claimed): for a non-empty token list the numeric form is emitted
\* exactly when every token parses as a number; otherwise the choices form
\* with all tokens lower-cased in input order.
C3_NumericIffAllParse ==
    (fmt_pc = "done" /\ fmt_in # <<>>) =>
        IF \A i \in 1..Len(fmt_in) : FloatParses(fmt_in[i])
        THEN IsNumericForm(fmt_out)
        ELSE fmt_out = [choices |-> [i \in 1..Len(fmt_in) |-> Lower(fmt_in[i])]]

\* every join key found in the canonical list: of a single question, of a
\* consecutive block, of a sub-question
RecordSetJoinKeys ==
    UNION {(IF Has(r, "join_key") THEN {r.join_key} ELSE {})
           \cup (IF Has(r, "problem") /\ Has(r.problem, "join_key") THEN {r.problem.join_key} ELSE {})
           \cup {SubQuestions(r)[i].join_key :
                    i \in {j \in 1..Len(SubQuestions(r)) : Has(SubQuestions(r)[j], "join_key")}}
           : r \in Range(Canonical)}

\* the keys of the answer table the last call was given
GivenAnswerKeys == DictKeys(LoadList(last_inputs.answer_key))

\* C4: a successful call writes the unmatched report exactly when some key
\* of the answer table equals no join key of the record set, and the report
\* lists those keys and no other, each once.
C4_UnmatchedExact ==
    ret5b = "path" =>
        /\ wrote_unmatched <=> (GivenAnswerKeys \ RecordSetJoinKeys # {})
        /\ wrote_unmatched =>
              /\ Range(unmatched_file.data) = GivenAnswerKeys \ RecordSetJoinKeys
              /\ Len(unmatched_file.data) = Cardinality(Range(unmatched_file.data))

\* C4 witness: the report was written while the table also held the key of
\* a consecutive block and of a sub-question, which are not in the report.
C4_Witness ==
    /\ ret5b = "path"
    /\ wrote_unmatched
    /\ \E c \in ConsecutiveRecords :
          /\ Has(c, "join_key") /\ c.join_key \in GivenAnswerKeys
          /\ \E i \in 1..Len(SubQuestions(c)) :
                /\ Has(SubQuestions(c)[i], "join_key")
                /\ SubQuestions(c)[i].join_key \in GivenAnswerKeys

\* the merged image mapping the last call was given
GivenMappings == LoadImageMappings(last_inputs.mappings)

\* C5 (as claimed): the images mapped under a consecutive block's own range
\* join key are all in the block's case_presentation.images.
C5_CaseImagesAttached ==
    ret5b = "path" =>
        \A c \in ConsecutiveRecords :
            (Has(c, "join_key") /\ c.join_key \in DictKeys(GivenMappings)) =>
                \A img \in Range(DictGet(GivenMappings, c.join_key)) :
                    /\ Has(c, "case_presentation")
                    /\ Has(c.case_presentation, "images")
                    /\ \E k \in 1..Len(c.case_presentation.images) :
                          c.case_presentation.images[k].path = img.image_path

\* the record's own join key: the question's for a single record, the
\* block's range key for a consecutive record
OwnJoinKey(r) ==
    IF GetFormat(r) = "single" THEN GetJoinKey(r.problem)
    ELSE IF GetFormat(r) = "consecutive" THEN GetJoinKey(r)
    ELSE NoStr

\* the own join key reads as letters-number
Parses(r) == OwnJoinKey(r) # NoStr /\ JoinKeyMatches(OwnJoinKey(r))

BlockLetters(r) == SubSeq(OwnJoinKey(r), 1, LetterSpan(OwnJoinKey(r)))

FirstNumber(r) ==
    LET rest == SubSeq(OwnJoinKey(r), LetterSpan(OwnJoinKey(r)) + 2, Len(OwnJoinKey(r)))
    IN  IntOf(SubSeq(rest, 1, DigitSpan(rest)))

\* (block_letter, first_number) of a is at most that of b
PairLeq(a, b) ==
    \/ StrLess(BlockLetters(a), BlockLetters(b))
    \/ BlockLetters(a) = BlockLetters(b) /\ FirstNumber(a) <= FirstNumber(b)

\* C6: two adjacent records of the canonical list whose own join keys parse
\* are in (block_letter, first_number) order.
C6_Sorted ==
    integrated_file.exists =>
        \A i \in 1..(Len(Canonical) - 1) :
            (Parses(Canonical[i]) /\ Parses(Canonical[i + 1])) =>
                PairLeq(Canonical[i], Canonical[i + 1])

\* C6 witness: question 2 stands directly before question 10 of the same
\* block, which the single file listed the other way round.
C6_Witness ==
    /\ ret5b = "path"
    /\ \E i \in 1..(Len(Canonical) - 1) :
          /\ Parses(Canonical[i]) /\ Parses(Canonical[i + 1])
          /\ BlockLetters(Canonical[i]) = BlockLetters(Canonical[i + 1])
          /\ FirstNumber(Canonical[i]) = 2
          /\ FirstNumber(Canonical[i + 1]) = 10
          /\ \E a, b \in 1..Len(LoadList(last_inputs.single)) :
                /\ a < b
                /\ LoadList(last_inputs.single)[a].problem_number = 10
                /\ LoadList(last_inputs.single)[b].problem_number = 2

C8_EmptyAborts ==
    [][(calls5b' = calls5b + 1 /\ AllProblems(step4_file, step4b_file) = <<>>)
          => (/\ ret5b' = "none"
              /\ integrated_file' = integrated_file
              /\ unmatched_file' = unmatched_file)]_vars

\* C8 witness: the last call returned None although single questions were
\* given, and the artifacts of an earlier successful call are still on disk.
C8_Witness ==
    /\ ret5b = "none"
    /\ calls5b = 2
    /\ last_inputs.single.exists
    /\ integrated_file.exists /\ Canonical # <<>>
    /\ unmatched_file.exists

\* C9 (as claimed): every element of the canonical list is tagged "single"
\* or "consecutive".
C9_TaggedUnion ==
    integrated_file.exists =>
        \A r \in Range(Canonical) : GetFormat(r) \in {"single", "consecutive"}

\* the range join key letters-lo-hi read back as <<lo, hi>>
RangeOf(join_key) ==
    LET n    == LetterSpan(join_key)
        rest == SubSeq(join_key, n + 2, Len(join_key))
        d1   == DigitSpan(rest)
    IN  <<IntOf(SubSeq(rest, 1, d1)), IntOf(SubSeq(rest, d1 + 2, Len(rest)))>>

\* C10 (as claimed): no single record's number lies inside the [start, end]
\* range of the range join key of a consecutive record.
C10_NoSingleInsideRange ==
    integrated_file.exists =>
        \A s \in SingleRecords : \A c \in ConsecutiveRecords :
            (Has(c, "join_key") /\ HasNumber(s.problem)) =>
                ~(/\ RangeOf(c.join_key)[1] <= s.problem.problem_number
                  /\ s.problem.problem_number <= RangeOf(c.join_key)[2])

\* ---------------------------------------------------------- reorder_text
\* the pages the loop of reorder_text has been through
PagesDone == IF ro_pc \in {"loop", "written"} THEN 1..(ro_i - 1) ELSE {}

\* where the marker of page k stands in the output
MarkerAt(k) == {i \in 1..Len(ro_text) : ro_text[i] = PageMarker(ro_pages[k].page_number)}

\* the lines of the output between the marker of page k and the empty line
\* that closes the page
Section(k) ==
    LET m == CHOOSE i \in MarkerAt(k) : TRUE
        e == SetMin({i \in (m + 1)..Len(ro_text) : ro_text[i] = <<>>})
    IN  SubSeq(ro_text, m + 1, e - 1)

Bijections(n) == {f \in [1..n -> 1..n] : \A i, j \in 1..n : f[i] = f[j] => i = j}

\* every block of the page carries a usable bbox
AllCarryBbox(k) ==
    \A i \in 1..Len(ro_pages[k].text_blocks) :
        /\ Has(ro_pages[k].text_blocks[i], "bbox")
        /\ Len(ro_pages[k].text_blocks[i].bbox) = 4

\* b may stand right after a in reading order
ReadingOrder(a, b) ==
    \/ a.bbox[2] < b.bbox[2]
    \/ a.bbox[2] = b.bbox[2] /\ a.bbox[1] <= b.bbox[1]

\* C11: for every page whose blocks all carry a bbox, the page's part of the
\* output lists the texts of exactly the page's blocks, each once, in
\* non-decreasing y0 order with ties in non-decreasing x0 order
C11_SortedPermutation ==
    \A k \in PagesDone :
        LET blocks == ro_pages[k].text_blocks
            n == Len(blocks)
        IN  (n > 0 /\ AllCarryBbox(k)) =>
                /\ Cardinality(MarkerAt(k)) = 1
                /\ Len(Section(k)) = n
                /\ \E f \in Bijections(n) :
                       /\ \A j \in 1..n : Section(k)[j] = blocks[f[j]].text
                       /\ \A j \in 1..(n - 1) : ReadingOrder(blocks[f[j]], blocks[f[j + 1]])

\* a page given as c, a, b (lowest block first, the tie in x0 reversed) has
\* been written as b, a, c, after an earlier page with blocks of its own
C11_Witness ==
    /\ ro_pc = "written"
    /\ Len(ro_pages) = 2
    /\ ro_pages[1].text_blocks # <<>>
    /\ ro_pages[2].text_blocks =
           <<Block(<<"c">>, 0, 1), Block(<<"a">>, 1, 0), Block(<<"b">>, 0, 0)>>
    /\ Section(2) = << <<"b">>, <<"a">>, <<"c">> >>

\* ------------------------------------------- chunk_consecutive_questions
\* the largest number a trigger or a page marker of the texts carries
MaxNumber == 9

\* s holds the tokens of t from index p on
HoldsAt(s, p, t) == p + Len(t) - 1 <= Len(s) /\ SubSeq(s, p, p + Len(t) - 1) = t

\* a trigger announcing questions n to m stands at index p of the text
Announces(p, n, m) ==
    \E sep \in {Comma, Tilde} : HoldsAt(ck_text, p, Trigger(n, sep, m))

\* the indices of the text where a trigger stands
TriggerStarts ==
    {p \in 1..Len(ck_text) : ck_text[p] = TrigHead /\ \E n, m \in 0..MaxNumber : Announces(p, n, m)}

\* the k-th of the trigger indices, counted from 1
KthTrigger(starts, k) ==
    CHOOSE p \in starts : Cardinality({q \in starts : q < p}) = k - 1

\* the candidate span of the k-th trigger: up to the next trigger or the end
Candidate(starts, k) ==
    SubSeq(ck_text, KthTrigger(starts, k),
           IF k < Cardinality(starts) THEN KthTrigger(starts, k + 1) - 1 ELSE Len(ck_text))

\* the last question number announced by the trigger at index p
LastAnnounced(p) == CHOOSE m \in 0..MaxNumber : \E n \in 0..MaxNumber : Announces(p, n, m)

\* what can stand before a question number at a line start
LineLeads == {<<NL>>} \cup {<<MarkHead>> \o Digits(d) \o <<MarkTail, NL>> : d \in 0..MaxNumber}

\* the indices of a candidate span where question number `number` starts a
\* line: a newline or a page marker, the number, the ideographic space
LineStartOccurrences(cand, number) ==
    {q \in 1..Len(cand) :
        /\ cand[q] \in {NL, MarkHead}
        /\ \E lead \in LineLeads : HoldsAt(cand, q, lead \o Digits(number) \o <<IdSpace>>)}

\* the span a trigger with candidate span cand and last number m is to give
ExpectedSpan(cand, m) ==
    LET occ == LineStartOccurrences(cand, m + 1)
    IN  IF occ = {} THEN cand ELSE SubSeq(cand, 1, SetMin(occ) - 1)

\* C12: the span emitted for a trigger announcing N to M ends right before
\* the first line-start occurrence of M+1 inside its candidate span, and is
\* the whole candidate span when there is no such occurrence (the emitted
\* text is the span without page markers and surrounding white space)
C12_SpanTruncation ==
    (ck_pc = "written" /\ ck_exists) =>
        LET starts == TriggerStarts
        IN  /\ Len(ck_out.data) = Cardinality(starts)
            /\ \A k \in 1..Len(ck_out.data) :
                   LET cand == Candidate(starts, k)
                       m    == LastAnnounced(KthTrigger(starts, k))
                   IN  ck_out.data[k].text = Strip(RemoveMarkers(ExpectedSpan(cand, m)))

\* a span for questions 1 to 2 was cut before a page marker followed by
\* "3" and the ideographic space
C12_Witness ==
    /\ ck_pc = "written"
    /\ ck_full = Trigger(1, Tilde, 2) \o <<"x", MarkHead, "2", MarkTail, NL, "3", IdSpace>>
    /\ Len(ck_out.data) = 1
    /\ ck_out.data[1].text = Trigger(1, Tilde, 2) \o <<"x">>

\* ------------------------------------------------------ the image mappers
\* the image lists of a mapping file
ImageLists(file) == {file.data[i].val : i \in 1..Len(file.data)}

\* the paths of an image list, in its order
PathsOf(list) == [i \in 1..Len(list) |-> list[i].image_path]

\* the list is in ascending path order and its i-th image is numbered with
\* the i-th letter
SortedAndLettered(list) ==
    /\ \A i \in 1..(Len(list) - 1) : ~StrLess(list[i + 1].image_path, list[i].image_path)
    /\ \A i \in 1..Len(list) : list[i].image_id = <<"A", "B", "C", "D", "E", "F">>[i]

\* C13: in the mappings written by steps 4c and 4d every image list is in
\* ascending image_path order and its i-th entry carries the i-th letter
C13_SortedLettered ==
    /\ \A list \in ImageLists(im_out4c) : SortedAndLettered(list)
    /\ \A list \in ImageLists(im_out4d) : SortedAndLettered(list)

\* the raw extraction listed c, b, a; step 4c filed a and b under A-1 and
\* step 4d filed b and c under C-1-3, each pair against its input order
C13_Witness ==
    /\ im_pc = "end"
    /\ PathsOf(AllImages(im_raw)) = << <<"c">>, <<"b">>, <<"a">> >>
    /\ \E list \in ImageLists(im_out4c) : PathsOf(list) = << <<"a">>, <<"b">> >>
    /\ \E list \in ImageLists(im_out4d) : PathsOf(list) = << <<"b">>, <<"c">> >>

\* the image stands in some list of the mapping written by step 4c
Placed(img) ==
    \E list \in ImageLists(im_out4c) :
        \E i \in 1..Len(list) : Has(img, "image_path") /\ list[i].image_path = img.image_path

\* step 4c has printed a warning that quotes the caption of the image
Reported(img) == \E i \in 1..Len(im_warnings) : im_warnings[i] = AssociatedText(img)

\* C14 (as claimed): once map_images_to_questions has run, every image of
\* its input that is not placed in the mapping has been reported by a warning
C14_EveryExclusionReported ==
    (im_pc \in {"4d", "end"} /\ im_readable) =>
        \A img \in Range(AllImages(im_raw)) : Placed(img) \/ Reported(img)

\* ------------------------------------------------------------------ main
\* C15 (as claimed): in one run, no stage downstream of a failed stage is
\* called: none of steps 2, 4c, 4d after a failed step 1, and neither step
\* 5.5 nor step 6 after a failed step 5b
C15_DownstreamSkipped ==
    /\ "1" \in mn_failed => mn_invoked \cap {"2", "4c", "4d"} = {}
    /\ "5b" \in mn_failed => mn_invoked \cap {"5.5", "6"} = {}

\* ---------------------------------------------------------- retry budgets
\* C16 (as claimed): the artifact of step 4b holds no entry for a chunk whose
\* calls exhausted the retry budget (only then is an entry made that carries
\* the chunk under "chunk" and the word "error")
C16_NoEntryForExhaustedUnit ==
    \A i \in 1..Len(step4b_file.data) :
        ~Has(step4b_file.data[i], "error") /\ ~Has(step4b_file.data[i], "chunk")

\* C17 (as claimed): in step 5a a call of the language model that follows
\* an earlier call is made only after a rate-limit delay has passed
C17_DelayBetweenCalls ==
    [][(ka_calls' = ka_calls + 1 /\ ka_calls > 0) => ka_waited]_vars

\* ------------------------------------------- integration, missing inputs
\* the object r without the field k
Drop(r, k) == [x \in DOMAIN r \ {k} |-> r[x]]

\* a record of the canonical list with the field k removed from its problem,
\* its case presentation and its sub-questions
DropDeep(problem_obj, k) ==
    IF GetFormat(problem_obj) = "single"
    THEN Put(problem_obj, "problem", Drop(problem_obj.problem, k))
    ELSE LET no_case == IF Has(problem_obj, "case_presentation")
                        THEN Put(problem_obj, "case_presentation",
                                 Drop(problem_obj.case_presentation, k))
                        ELSE problem_obj
             sub_qs  == SubQuestions(problem_obj)
         IN  IF Has(problem_obj, "sub_questions")
             THEN Put(no_case, "sub_questions", [i \in 1..Len(sub_qs) |-> Drop(sub_qs[i], k)])
             ELSE no_case

\* how often each record occurs in a list, the field k left aside
CountsWithout(records, k) ==
    LET dropped == [i \in 1..Len(records) |-> DropDeep(records[i], k)]
    IN  [r \in Range(dropped) |-> Cardinality({i \in 1..Len(dropped) : dropped[i] = r})]

\* the records the last call of integrate_answers loaded
LoadedProblems == AllProblems(last_inputs.single, last_inputs.consecutive)

NoAnswerKey == ~last_inputs.answer_key.exists

NoMappings == \A i \in 1..Len(last_inputs.mappings) : ~last_inputs.mappings[i].exists

ImageListsOf(problem_obj) ==
    LET Images(q) == IF Has(q, "images") THEN {q.images} ELSE {}
        sub_qs    == SubQuestions(problem_obj)
    IN  (IF Has(problem_obj, "problem") THEN Images(problem_obj.problem) ELSE {})
        \cup (IF Has(problem_obj, "case_presentation")
              THEN Images(problem_obj.case_presentation) ELSE {})
        \cup UNION {Images(sub_qs[i]) : i \in 1..Len(sub_qs)}

\* all image lists of the artifact integrate_answers wrote
WrittenImageLists == UNION {ImageListsOf(mg_out.data[i]) : i \in 1..Len(mg_out.data)}

StrictlyIncreasingByPath(images) ==
    \A i \in 1..(Len(images) - 1) : StrLess(images[i].path, images[i + 1].path)

\* C19: in the artifact integrate_answers wrote, every image list is
\* strictly increasing by path: sorted, and no path occurs twice
C19_ImageListsStrictlyIncreasing ==
    mg_pc = "written" => \A images \in WrittenImageLists : StrictlyIncreasingByPath(images)

\* ------------------------------------------- integration, order of records
\* C20: in the canonical list no record whose join key is missing or does
\* not parse stands before a record whose join key parses
C20_UnparsableLast ==
    LET written == integrated_file.data
    IN  \A i \in 1..Len(written) : \A j \in (i + 1)..Len(written) :
            ~(~Parses(written[i]) /\ Parses(written[j]))

\* ------------------------------------------- reorder_text, malformed bbox
WellFormed(b) == ~BboxRaises(b)

\* the texts of the page's well-formed blocks in (y0, x0) order, then the
\* texts of its malformed blocks in the order they were given
WellFormedThenRest(blocks) ==
    LET good == SortBlocks(SelectSeq(blocks, WellFormed))
        bad  == SelectSeq(blocks, BboxRaises)
        all  == good \o bad
    IN  [i \in 1..Len(all) |-> BlockText(all[i])]

\* C21: for every page with a block whose bbox is missing or too short, the
\* page's part of the output is the texts of the well-formed blocks in
\* (y0, x0) order followed by the texts of the malformed blocks in their
\* original order
C21_MalformedBlocksLast ==
    \A k \in PagesDone :
        LET blocks == ro_pages[k].text_blocks
        IN  (blocks # <<>> /\ ~AllCarryBbox(k)) =>
                /\ Cardinality(MarkerAt(k)) = 1
                /\ Section(k) = WellFormedThenRest(blocks)

\* ------------------------------------- chunk_consecutive_questions, ranges
\* the numbers <<N, M>> captured by the trigger at index p
Captured(p) == CHOOSE nm \in (0..MaxNumber) \X (0..MaxNumber) : Announces(p, nm[1], nm[2])

\* the k-th span is the one of the k-th trigger: its question numbers start
\* at the trigger's N and end at its M
SpanCarries(starts, k) ==
    LET nm == Captured(KthTrigger(starts, k))
        qn == ck_out.data[k].question_numbers
    IN  qn # <<>> /\ qn[1] = nm[1] /\ qn[Len(qn)] = nm[2]

\* C22: the written list has one span per trigger, in trigger order, and the
\* question numbers of each span start at the trigger's N and end at its M
C22_OneSpanPerTrigger ==
    LET starts == TriggerStarts
    IN  (ck_pc = "written" /\ ck_exists) =>
            /\ Len(ck_out.data) = Cardinality(starts)
            /\ \A k \in 1..Cardinality(starts) : SpanCarries(starts, k)

\* ------------------------------------------ the image mappers, duplicates
\* no two entries of the list carry the same image_path
DistinctPaths(list) ==
    \A i, j \in 1..Len(list) : list[i].image_path = list[j].image_path => i = j

\* C23: in the mappings written by steps 4c and 4d no image list holds two
\* entries with the same image_path
C23_NoDuplicatePath ==
    /\ \A list \in ImageLists(im_out4c) : DistinctPaths(list)
    /\ \A list \in ImageLists(im_out4d) : DistinctPaths(list)

\* ------------------------------------- map_consecutive_images, the ranges
\* the indices of the caption where a range "mondai N sep M" stands
RangeStarts(caption) ==
    {p \in 1..Len(caption) :
        \E n, m \in 0..MaxNumber : \E sep \in RangeSeps :
            HoldsAt(caption, p, <<Mondai>> \o Digits(n) \o <<sep>> \o Digits(m))}

\* the caption's first range is (n, m)
CaptionRangeIs(caption, n, m) ==
    LET starts == RangeStarts(caption)
    IN  /\ starts # {}
        /\ \E sep \in RangeSeps :
               HoldsAt(caption, SetMin(starts), <<Mondai>> \o Digits(n) \o <<sep>> \o Digits(m))

\* the spans of the chunk file that step 4d maps images to
MappedSpans == {i \in 1..Len(im_chunks.data) : Len(im_chunks.data[i].question_numbers) >= 2}

FirstOf(i) == im_chunks.data[i].question_numbers[1]

LastOf(i) == im_chunks.data[i].question_numbers[Len(im_chunks.data[i].question_numbers)]

\* the image paths step 4d wrote under the join key of the i-th span
PathsUnderSpan(i) ==
    LET join_key == RangeJoinKey(BlockChar(PdfStem), FirstOf(i), LastOf(i))
    IN  IF join_key \in DictKeys(im_out4d.data)
        THEN Range(PathsOf(DictGet(im_out4d.data, join_key)))
        ELSE {}

\* C24: an image stands under the join key of a span only if the range of
\* its caption is the span's (first, last) question number; an image without
\* range or with another range stands under no key of that span
C24_OnlyExactRange ==
    LET images == Range(AllImages(im_raw))
    IN  (im_pc = "end" /\ im_out4d.exists) =>
            \A i \in MappedSpans : \A img \in images :
                img.image_path \in PathsUnderSpan(i) =>
                    CaptionRangeIs(img.associated_text, FirstOf(i), LastOf(i))

\* step 4d has placed the image captioned 1-3 under the span 1 to 3 and left
\* out the image captioned 1-2 and the image without range
C24_Witness ==
    /\ im_pc = "end"
    /\ im_out4d.exists
    /\ PathsOf(AllImages(im_raw)) = << <<"f">>, <<"c">>, <<"d">> >>
    /\ \E i \in MappedSpans : FirstOf(i) = 1 /\ LastOf(i) = 3 /\ PathsUnderSpan(i) = {<<"c">>}

\* ---------------------------------------------------------- retry ceiling
\* C25: in steps 3, 4, 4b and 5a no unit is called more than max_retries
\* times, and a unit one of whose calls has succeeded is not called again
C25_CallsBounded ==
    [][\A u \in 1..Len(rt_calls) :
           /\ rt_calls'[u] <= MaxRetries
           /\ rt_ok[u] => rt_calls'[u] = rt_calls[u]]_vars

\* a step went through two units: the first used up its calls without
\* success, the second succeeded at its last call
C25_Witness ==
    /\ rt_pc = "done"
    /\ Len(rt_work) = 2
    /\ rt_calls = <<MaxRetries, MaxRetries>>
    /\ rt_ok = <<FALSE, TRUE>>

\* -------------------------------------- integration, case presentations
\* the case presentations of a record list, their image lists left aside
CasesOf(records) ==
    {Drop(records[i].case_presentation, "images") :
        i \in {j \in 1..Len(records) : Has(records[j], "case_presentation")}}

\* C26: the case presentations of the artifact integrate_answers wrote are
\* those it loaded, image lists aside: none was given an answer, whatever
\* keys the answer table holds
C26_CaseNeverAnswered ==
    mg_pc = "written" =>
        CasesOf(mg_out.data) = CasesOf(AllProblems(mg_single, mg_consecutive))

\* integrate_answers wrote a block whose case presentation carries a join
\* key of the answer table; the sub-question C-2 was given its answer
C26_Witness ==
    /\ mg_pc = "written"
    /\ mg_key.exists
    /\ \E i \in 1..Len(mg_out.data) :
          /\ Has(mg_out.data[i], "case_presentation")
          /\ Has(mg_out.data[i].case_presentation, "join_key")
          /\ mg_out.data[i].case_presentation.join_key \in DictKeys(mg_key.data)
          /\ Has(mg_out.data[i].sub_questions[1], "answer")

\* ------------------------------------ integration, blocks of the exam
\* the records of the consecutive file the last call was given
GivenBlocks == LoadList(last_inputs.consecutive)

\* a sub-question of a given block carries the join key of the question
SameKeySubQuestion(q) ==
    \E b \in 1..Len(GivenBlocks) : \E i \in 1..Len(SubQuestions(GivenBlocks[b])) :
        /\ Has(SubQuestions(GivenBlocks[b])[i], "join_key")
        /\ SubQuestions(GivenBlocks[b])[i].join_key = q.join_key

\* C27: a single question that carries a number and a join key is missing
\* from the canonical list only if a sub-question of a consecutive block of
\* the exam carries the same join key (block letter and number)
C27_DiscardOnlySameJoinKey ==
    ret5b = "path" =>
        \A q \in GivenSingles :
            (HasNumber(q) /\ Has(q, "join_key") /\ ~Emitted(q)) => SameKeySubQuestion(q)

\* ------------------------------------------- integration, image ids
\* "{exam_id}-{join_key}-{image_id}" of step 6, the exam id left aside
PublicName(join_key, image_id) == join_key \o <<"-", image_id>>

\* no two different images of the list carry the same id
DistinctIds(images) ==
    \A i, j \in 1..Len(images) : images[i].id = images[j].id => images[i].path = images[j].path

\* the records of the written artifact that carry a join key and images
KeyedImageLists ==
    UNION {LET r == mg_out.data[i]
               Keyed(q) == IF Has(q, "join_key") /\ Has(q, "images")
                           THEN {[join_key |-> q.join_key, images |-> q.images]} ELSE {}
           IN  (IF Has(r, "problem") THEN Keyed(r.problem) ELSE {})
               \cup UNION {Keyed(SubQuestions(r)[k]) : k \in 1..Len(SubQuestions(r))}
           : i \in 1..Len(mg_out.data)}

\* C28: in the artifact integrate_answers wrote, no image list holds two
\* different images with the same id, so that no two different images of one
\* join key get the same public file name "{exam_id}-{join_key}-{image_id}"
C28_DistinctImageIds ==
    mg_pc = "written" =>
        /\ \A images \in WrittenImageLists : DistinctIds(images)
        /\ \A l \in KeyedImageLists : \A i, j \in 1..Len(l.images) :
               l.images[i].path # l.images[j].path =>
                   PublicName(l.join_key, l.images[i].id) # PublicName(l.join_key, l.images[j].id)

\* ------------------------------------------ integration, unmatched report
\* C29: when the last call of integrate_answers succeeded and found every
\* key of the answer table used, no unmatched-answers artifact is on disk
C29_NoStaleUnmatched ==
    (ret5b = "path" /\ ~wrote_unmatched) => ~unmatched_file.exists

\* ------------------------------------- map_consecutive_images, source page
\* the pages of the raw extraction on which an image with this path stands
PagesOf(path) ==
    {p \in 1..Len(im_raw) :
        \E k \in 1..Len(im_raw[p].images) : im_raw[p].images[k].image_path = path}

\* C30: every entry written by map_consecutive_images carries as
\* source_page a page of the raw extraction on which its image stands
C30_SourcePageIsImagePage ==
    \A list \in ImageLists(im_out4d) : \A i \in 1..Len(list) :
        list[i].source_page \in PagesOf(list[i].image_path)

====
